---- MODULE Spec2Model ----
(***************************************************************************)
(* Daemon registry (packages/registry): the key-value backed entry store,  *)
(* the fixed-window rate limiter, identity derivation and the announce     *)
(* operation, as a state machine over the external key-value store.        *)
(*                                                                         *)
(* Strings the code takes apart (host names, paths, owners, ids) are       *)
(* tuples of one-character strings; URLs are referred to by their href.    *)
(* Instants are milliseconds since the model's epoch.                      *)
(***************************************************************************)
EXTENDS Integers, Sequences, FiniteSets, TLC

VARIABLES
    kvBound,      \* env.REGISTRY_DATA is bound (fixed per deployment)
    kvAnnounced,  \* value under "announced_daemons": Absent or [json |-> entries]
    kvActivity,   \* value under "activity_feed": Absent or [json |-> events]
    kvRate,       \* value under "rate_limit:<ip>" per client: Absent or a stored record
    now,          \* wall clock, ms
    ticks,        \* number of clock advances so far
    pc,           \* per request: position in its handler
    args,         \* per request: the tool arguments and transport
    loc,          \* per request: the handler's local variables
    result,       \* per request: the value returned to the caller
    before,       \* the store as it was when the request began that runs alone
    rlLast,       \* the latest direct rate-limiter call and what it returned
    triggers,     \* number of cron triggers fired so far
    swept,        \* per url: number of health checks the sweeps have made of it
    appended,     \* number of direct appends to the activity log so far
    daemonCache   \* the daemon server's cache of daemon.md: Null or [sections, lastFetch]

vars == <<kvBound, kvAnnounced, kvActivity, kvRate, now, ticks,
          pc, args, loc, result, before, rlLast, triggers, swept, appended,
          daemonCache>>

\* What the announce handlers and the rate limiter leave alone
healthVars == <<triggers, swept, appended, daemonCache>>

\* kv.get of a key that holds nothing, and JavaScript's null / undefined
Absent == <<>>
Null == <<>>
\* an optional timestamp that is not set
NoTime == 0 - 1

----------------------------------------------------------------------------
(* Bounds of the model *)

NumProcs == 2
MaxTicks == 1
MaxCount == 6
MaxAppends == 150
LogTickEvery == 50

----------------------------------------------------------------------------
(* Program constants *)

RATE_LIMIT_WINDOW_MS == 3600000
RATE_LIMIT_MAX_ANNOUNCES == 5
RATE_LIMIT_TTL_S == 3600
ACTIVITY_FEED_MAX_EVENTS == 100
ID_OWNER_MAX == 20
ID_FALLBACK_MAX == 32

----------------------------------------------------------------------------
(* Character strings *)

UpperCase == <<"A","B","C","D","E","F","G","H","I","J","K","L","M",
               "N","O","P","Q","R","S","T","U","V","W","X","Y","Z">>
LowerCase == <<"a","b","c","d","e","f","g","h","i","j","k","l","m",
               "n","o","p","q","r","s","t","u","v","w","x","y","z">>
Digits == {"0","1","2","3","4","5","6","7","8","9"}

Range(s) == {s[i] : i \in DOMAIN s}

\* String.prototype.toLowerCase, one character
ToLowerChar(c) ==
    IF \E i \in DOMAIN UpperCase : UpperCase[i] = c
    THEN LowerCase[CHOOSE i \in DOMAIN UpperCase : UpperCase[i] = c]
    ELSE c

ToLowerCase(s) == [i \in DOMAIN s |-> ToLowerChar(s[i])]

\* s.replace(/[^a-z0-9]/g, '')
KeepLowerAlnum(s) == SelectSeq(s, LAMBDA c : c \in Range(LowerCase) \cup Digits)

\* s.replace(/[^a-z0-9]/gi, '')
KeepAlnum(s) ==
    SelectSeq(s, LAMBDA c : c \in Range(LowerCase) \cup Range(UpperCase) \cup Digits)

\* s.substring(0, n)
Substring0(s, n) == SubSeq(s, 1, IF Len(s) < n THEN Len(s) ELSE n)

\* s.split(sep): the pieces between occurrences of the character sep
RECURSIVE Split(_, _)
Split(s, sep) ==
    IF \E i \in DOMAIN s : s[i] = sep
    THEN LET i == CHOOSE k \in DOMAIN s : s[k] = sep /\ \A j \in 1..(k-1) : s[j] # sep
         IN <<SubSeq(s, 1, i - 1)>> \o Split(SubSeq(s, i + 1, Len(s)), sep)
    ELSE <<s>>

\* parts.join(sep)
RECURSIVE Join(_, _)
Join(parts, sep) ==
    IF Len(parts) = 0 THEN <<>>
    ELSE IF Len(parts) = 1 THEN parts[1]
    ELSE parts[1] \o <<sep>> \o Join(Tail(parts), sep)

\* parts.reverse()
Reverse(s) == [i \in DOMAIN s |-> s[Len(s) + 1 - i]]

\* s.replace(/^\/|\/$/g, ''): one leading and one trailing slash removed
StripSlashes(s) ==
    LET a == IF Len(s) > 0 /\ s[1] = "/" THEN Tail(s) ELSE s
    IN IF Len(a) > 0 /\ a[Len(a)] = "/" THEN SubSeq(a, 1, Len(a) - 1) ELSE a

----------------------------------------------------------------------------
(* The strings of the model, by their characters *)

UrlX == "https://x.example.com/"
UrlXHttp == "http://x.example.com/"
UrlY == "https://y.example.org/"
UrlSeed == "https://daemon.saltedkeys.io/"
UrlBad == "not a url"
\* urls with a path, and one whose host is written in capitals
\* A URL whose hash is exactly -2^31
UrlMinInt == "https://bpubfbtr.example.net/"
UrlXApi == "https://x.example.com/api"
UrlXDeep == "https://x.example.com/api/v1/"
UrlXUpper == "https://X.Example.COM/Me"
\* owners whose sanitized form is empty, and longer than the cap
OwnerSymbols == "!!!"
OwnerLong == "Dr. Grace B. Hopper-Murray 3rd"
\* The daemons announced before the model's epoch
PriorUrls == <<"https://p1.example.net/", "https://p2.example.net/",
               "https://p3.example.net/", "https://p4.example.net/">>

\* Two daemons whose urls hash to the same minute of the hour (17)
TwinUrls == <<"https://b.example.net/", "https://l.example.net/">>

Chars(str) ==
    CASE str = UrlX -> <<"h","t","t","p","s",":","/","/","x",".","e","x","a","m","p","l","e",".","c","o","m","/">>
      [] str = UrlXHttp -> <<"h","t","t","p",":","/","/","x",".","e","x","a","m","p","l","e",".","c","o","m","/">>
      [] str = UrlY -> <<"h","t","t","p","s",":","/","/","y",".","e","x","a","m","p","l","e",".","o","r","g","/">>
      [] str = UrlSeed -> <<"h","t","t","p","s",":","/","/","d","a","e","m","o","n",".","s","a","l","t","e","d","k","e","y","s",".","i","o","/">>
      [] str = UrlBad -> <<"n","o","t"," ","a"," ","u","r","l">>
      [] str = PriorUrls[1] -> <<"h","t","t","p","s",":","/","/","p","1",".","e","x","a","m","p","l","e",".","n","e","t","/">>
      [] str = PriorUrls[2] -> <<"h","t","t","p","s",":","/","/","p","2",".","e","x","a","m","p","l","e",".","n","e","t","/">>
      [] str = PriorUrls[3] -> <<"h","t","t","p","s",":","/","/","p","3",".","e","x","a","m","p","l","e",".","n","e","t","/">>
      [] str = PriorUrls[4] -> <<"h","t","t","p","s",":","/","/","p","4",".","e","x","a","m","p","l","e",".","n","e","t","/">>
      [] str = TwinUrls[1] -> <<"h","t","t","p","s",":","/","/","b",".","e","x","a","m","p","l","e",".","n","e","t","/">>
      [] str = TwinUrls[2] -> <<"h","t","t","p","s",":","/","/","l",".","e","x","a","m","p","l","e",".","n","e","t","/">>
      [] str = "Ada" -> <<"A","d","a">>
      [] str = "Swift" -> <<"S","w","i","f","t">>
      [] str = "daemon" -> <<"d","a","e","m","o","n">>
      [] str = "unknown." -> <<"u","n","k","n","o","w","n",".">>
      [] str = "io.saltedkeys.swift" -> <<"i","o",".","s","a","l","t","e","d","k","e","y","s",".","s","w","i","f","t">>
      [] str = "com.example.x.ada" -> <<"c","o","m",".","e","x","a","m","p","l","e",".","x",".","a","d","a">>
      [] str = UrlXApi -> <<"h","t","t","p","s",":","/","/","x",".","e","x","a","m","p","l","e",".","c","o","m","/","a","p","i">>
      [] str = UrlXDeep -> <<"h","t","t","p","s",":","/","/","x",".","e","x","a","m","p","l","e",".","c","o","m","/","a","p","i","/","v","1","/">>
      [] str = UrlXUpper -> <<"h","t","t","p","s",":","/","/","X",".","E","x","a","m","p","l","e",".","C","O","M","/","M","e">>
      [] str = OwnerSymbols -> <<"!","!","!">>
      [] str = OwnerLong -> <<"D","r","."," ","G","r","a","c","e"," ","B","."," ","H","o","p","p","e","r","-","M","u","r","r","a","y"," ","3","r","d">>
      [] str = "com.example.x.daemon" -> <<"c","o","m",".","e","x","a","m","p","l","e",".","x",".","d","a","e","m","o","n">>
      [] str = "com.example.x.api" -> <<"c","o","m",".","e","x","a","m","p","l","e",".","x",".","a","p","i">>
      [] str = "com.example.x.Me" -> <<"c","o","m",".","e","x","a","m","p","l","e",".","x",".","M","e">>
      [] str = "com.example.x.drgracebhoppermurray" -> <<"c","o","m",".","e","x","a","m","p","l","e",".","x",".","d","r","g","r","a","c","e","b","h","o","p","p","e","r","m","u","r","r","a","y">>
      [] str = "unknown.notaurl" -> <<"u","n","k","n","o","w","n",".","n","o","t","a","u","r","l">>
      [] str = "Security" -> <<"S","e","c","u","r","i","t","y">>
      [] str = "security" -> <<"s","e","c","u","r","i","t","y">>
      [] str = "SECURITY" -> <<"S","E","C","U","R","I","T","Y">>
      [] str = "insecurity" -> <<"i","n","s","e","c","u","r","i","t","y">>
      [] str = "ai" -> <<"a","i">>
      [] str = "Engineer" -> <<"E","n","g","i","n","e","e","r">>
      [] str = "engine" -> <<"e","n","g","i","n","e">>
      [] str = "Privacy" -> <<"P","r","i","v","a","c","y">>
      [] str = "priv" -> <<"p","r","i","v">>
      [] str = "EXAMPLE.net" -> <<"E","X","A","M","P","L","E",".","n","e","t">>
      [] str = "p1" -> <<"p","1">>
      [] str = "nothing" -> <<"n","o","t","h","i","n","g">>
      [] str = "ada" -> <<"a","d","a">>
      [] str = "SECUR" -> <<"S","E","C","U","R">>
      [] str = UrlMinInt -> <<"h","t","t","p","s",":","/","/","b","p","u","b","f","b","t","r",".","e","x","a","m","p","l","e",".","n","e","t","/">>
      [] str = "org.example.y.ada" -> <<"o","r","g",".","e","x","a","m","p","l","e",".","y",".","a","d","a">>
      [] str = "io.saltedkeys.daemon.ada" -> <<"i","o",".","s","a","l","t","e","d","k","e","y","s",".","d","a","e","m","o","n",".","a","d","a">>
      [] str = "" -> <<>>

\* new URL(href) for hrefs of the shape scheme://host[/path]: whether it parses,
\* and its hostname and pathname
ParseURL(href) ==
    LET s == Chars(href)
        hasScheme == \E i \in DOMAIN s :
                        /\ i > 1 /\ i + 2 <= Len(s)
                        /\ s[i] = ":" /\ s[i+1] = "/" /\ s[i+2] = "/"
                        /\ \A j \in 1..(i-1) : s[j] \in Range(LowerCase)
    IN IF ~hasScheme THEN [ok |-> FALSE, hostname |-> <<>>, pathname |-> <<>>]
       ELSE LET i == CHOOSE k \in DOMAIN s : s[k] = ":" /\ \A j \in 1..(k-1) : s[j] # ":"
                rest == SubSeq(s, i + 3, Len(s))
                pieces == Split(rest, "/")
                host == pieces[1]
                path == IF Len(pieces) = 1 THEN <<"/">>
                        ELSE SubSeq(rest, Len(host) + 1, Len(rest))
            IN [ok |-> host # <<>>, hostname |-> ToLowerCase(host), pathname |-> path]

\* Faulty variant: a path segment is preferred to the owner
deriveIdPathFirst(url, owner) ==
    LET parsed == ParseURL(url)
    IN IF parsed.ok
       THEN LET parts == Reverse(Split(parsed.hostname, "."))
                pathPart == Split(StripSlashes(parsed.pathname), "/")[1]
                sanitized == Substring0(KeepLowerAlnum(ToLowerCase(Chars(owner))), ID_OWNER_MAX)
                identifier == IF pathPart # <<>> THEN pathPart
                              ELSE IF sanitized # <<>> THEN sanitized
                              ELSE Chars("daemon")
            IN Join(parts \o <<identifier>>, ".")
       ELSE Chars("unknown.") \o Substring0(KeepAlnum(Chars(url)), ID_FALLBACK_MAX)

\* deriveIdFromUrl(url, owner): owner is "" when not given
deriveIdFromUrl(url, owner) ==
    LET parsed == ParseURL(url)
    IN IF parsed.ok
       THEN LET parts == Reverse(Split(parsed.hostname, "."))
                pathPart == Split(StripSlashes(parsed.pathname), "/")[1]
                identifier0 == IF pathPart # <<>> THEN pathPart ELSE Chars("daemon")
                sanitized == Substring0(KeepLowerAlnum(ToLowerCase(Chars(owner))), ID_OWNER_MAX)
                identifier == IF owner # "" /\ sanitized # <<>> THEN sanitized ELSE identifier0
            IN Join(parts \o <<identifier>>, ".")
       ELSE Chars("unknown.") \o Substring0(KeepAlnum(Chars(url)), ID_FALLBACK_MAX)

----------------------------------------------------------------------------
(* Entries and the entry store (lib/kv.ts) *)

\* seed-registry.json: the entries the registry is deployed with
SeedEntries ==
    << [id |-> Chars("io.saltedkeys.swift"), url |-> UrlSeed, owner |-> "Swift",
        announced_at |-> NoTime, verified |-> TRUE, verified_at |-> NoTime,
        last_checked |-> NoTime, status |-> "mcp", healthy |-> TRUE] >>

\* kv.get(KV_ANNOUNCED_KEY, "json") followed by `announced || []`
getAnnouncedFromKV(stored) == IF stored = Absent THEN <<>> ELSE stored.json

\* Faulty variant: the load ignores the overlay
loadRegistrySeedOnly(bound, stored) == SeedEntries

\* A stored value that is JSON but not an array
Malformed == [object |-> "{}"]

\* Array.isArray(value), for a value that is not null
IsArray(value) == "json" \in DOMAIN value

\* What kv.get(KV_ANNOUNCED_KEY, "json") can do when the key holds `stored`: reject,
\* or resolve to the value
KvGetOutcomes(stored) == {[threw |-> TRUE, value |-> Absent], [threw |-> FALSE, value |-> stored]}

\* Faulty variant: the rejection of kv.get is not caught
loadRegistryUncaught(bound, got) ==
    IF bound /\ got.threw THEN [threw |-> TRUE, entries |-> <<>>]
    ELSE IF bound /\ got.value # Absent /\ IsArray(got.value)
    THEN [threw |-> FALSE, entries |-> SeedEntries \o got.value.json]
    ELSE [threw |-> FALSE, entries |-> SeedEntries]

\* loadRegistry(kv) when kv.get does `got`: whether it throws, and the entries of the
\* registry it returns
loadRegistryFrom(bound, got) ==
    IF bound /\ ~got.threw /\ got.value # Absent /\ IsArray(got.value)
    THEN [threw |-> FALSE, entries |-> SeedEntries \o got.value.json]
    ELSE [threw |-> FALSE, entries |-> SeedEntries]

\* loadRegistry(kv).entries with a store that answers: copies of the seed entries,
\* then the overlay
loadRegistry(bound, stored) == loadRegistryFrom(bound, [threw |-> FALSE, value |-> stored]).entries

\* Faulty variant: the list is saved without the entry pushed last
saveAnnouncedWithoutLast(announced) ==
    [json |-> SubSeq(announced, 1, Len(announced) - 1)]

\* kv.put(KV_ANNOUNCED_KEY, JSON.stringify(announced))
saveAnnouncedToKV(announced) == [json |-> announced]

\* kv.get(KV_ACTIVITY_KEY, "json") followed by `events || []`
loadActivityFeed(stored) == IF stored = Absent THEN <<>> ELSE stored.json

\* addActivityEvent: the list put back, given the list read and the stamped event
\* Faulty variant: a full log drops the new event's predecessor at the front instead of
\* the oldest event
addActivityEventDropsSecond(events, event, t) ==
    LET all == <<[event EXCEPT !.timestamp = t]>> \o events
    IN [json |-> IF Len(all) > ACTIVITY_FEED_MAX_EVENTS
                 THEN <<all[1]>> \o SubSeq(all, 3, Len(all))
                 ELSE all]

addActivityEvent(events, event, t) ==
    LET all == <<[event EXCEPT !.timestamp = t]>> \o events
    IN [json |-> IF Len(all) > ACTIVITY_FEED_MAX_EVENTS
                 THEN SubSeq(all, 1, ACTIVITY_FEED_MAX_EVENTS)
                 ELSE all]

\* Array.prototype.find: the first element satisfying the test, or Null
FindByUrl(entries, url) ==
    IF \E i \in DOMAIN entries : entries[i].url = url
    THEN entries[CHOOSE i \in DOMAIN entries :
                    entries[i].url = url /\ \A j \in 1..(i-1) : entries[j].url # url]
    ELSE Null

FindById(entries, id) ==
    IF \E i \in DOMAIN entries : entries[i].id = id
    THEN entries[CHOOSE i \in DOMAIN entries :
                    entries[i].id = id /\ \A j \in 1..(i-1) : entries[j].id # id]
    ELSE Null

----------------------------------------------------------------------------
(* Rate limiter (lib/rate-limit.ts) *)

Clients == {"203.0.113.7"}

\* checkRateLimit(kv, ip) at time t: the value returned
checkRateLimit(store, ip, t) ==
    LET record == store[ip]
    IN IF record = Absent \/ t - record.windowStart > RATE_LIMIT_WINDOW_MS
       THEN [allowed |-> TRUE, remaining |-> RATE_LIMIT_MAX_ANNOUNCES - 1,
             resetIn |-> RATE_LIMIT_WINDOW_MS]
       ELSE IF record.count >= RATE_LIMIT_MAX_ANNOUNCES
       THEN [allowed |-> FALSE, remaining |-> 0,
             resetIn |-> RATE_LIMIT_WINDOW_MS - (t - record.windowStart)]
       ELSE [allowed |-> TRUE,
             remaining |-> RATE_LIMIT_MAX_ANNOUNCES - record.count - 1,
             resetIn |-> RATE_LIMIT_WINDOW_MS - (t - record.windowStart)]

\* Faulty variant: an expired window is carried on instead of being replaced
nextRateRecordNoReset(record, t) ==
    IF record = Absent
    THEN [count |-> 1, windowStart |-> t]
    ELSE [count |-> record.count + 1, windowStart |-> record.windowStart]

\* recordRateLimitHit: the record put, given the record read and the time read
nextRateRecord(record, t) ==
    IF record = Absent \/ t - record.windowStart > RATE_LIMIT_WINDOW_MS
    THEN [count |-> 1, windowStart |-> t]
    ELSE [count |-> record.count + 1, windowStart |-> record.windowStart]

\* kv.put(key, value, { expirationTtl: 3600 }) at time t
putRateRecord(store, ip, value, t) ==
    [store EXCEPT ![ip] = [count |-> value.count, windowStart |-> value.windowStart,
                           expiresAt |-> t + RATE_LIMIT_TTL_S * 1000]]

\* recordRateLimitHit(kv, ip) with nothing in between its get and its put
recordRateLimitHit(store, ip, t) ==
    putRateRecord(store, ip, nextRateRecord(store[ip], t), t)

\* Faulty variant: the check counts itself as a hit
checkRateLimitThatRecords(store, ip, t) == recordRateLimitHit(store, ip, t)

\* checkRateLimit(kv, ip) at time t: the store it leaves (it only reads)
checkRateLimitStore(store, ip, t) == store

----------------------------------------------------------------------------
(* Verifier (lib/health.ts) *)

VERIFY_MIN_LENGTH == 50

\* What fetch(<url>daemon.md) can come back with
FetchOutcomes ==
    { [kind |-> "throw", ok |-> FALSE, bracket |-> FALSE, length |-> 0],
      [kind |-> "response", ok |-> FALSE, bracket |-> FALSE, length |-> 0],
      [kind |-> "response", ok |-> TRUE, bracket |-> TRUE, length |-> VERIFY_MIN_LENGTH - 1],
      [kind |-> "response", ok |-> TRUE, bracket |-> TRUE, length |-> VERIFY_MIN_LENGTH] }

\* verifyDaemon(url), given what the fetch came back with
verifyDaemon(resp) ==
    IF resp.kind = "throw" THEN [verified |-> FALSE, error |-> "fetch failed"]
    ELSE IF ~resp.ok THEN [verified |-> FALSE, error |-> "HTTP status"]
    ELSE IF ~resp.bracket \/ resp.length < VERIFY_MIN_LENGTH
    THEN [verified |-> FALSE, error |-> "Invalid daemon.md format"]
    ELSE [verified |-> TRUE, error |-> ""]

\* events.slice(0, n)
Slice0(s, n) ==
    IF n >= 0 THEN SubSeq(s, 1, IF n < Len(s) THEN n ELSE Len(s))
    ELSE SubSeq(s, 1, IF Len(s) + n > 0 THEN Len(s) + n ELSE 0)

\* DEFAULT_ACTIVITY_LIMIT: `limit || 20`
ACTIVITY_DEFAULT_LIMIT == 20

\* registryActivity(kv, limit, eventType): `given` tells whether a limit was passed,
\* eventType is "" when none was
registryActivity(bound, stored, given, limit, eventType) ==
    IF ~bound THEN [events |-> <<>>, total |-> 0]
    ELSE LET all == loadActivityFeed(stored)
             events == IF eventType # ""
                       THEN SelectSeq(all, LAMBDA e : e.type = eventType)
                       ELSE all
             maxEvents == IF given /\ limit # 0 THEN limit ELSE ACTIVITY_DEFAULT_LIMIT
         IN [events |-> Slice0(events, maxEvents), total |-> Len(events)]

\* String.prototype.includes on strings taken apart
Includes(s, q) ==
    \E i \in 0..(Len(s) - Len(q)) : SubSeq(s, i + 1, i + Len(q)) = q

\* entry.tags?.some(t => t.toLowerCase() === normalizedTag)
TagFilter(entry, tag) ==
    IF "tags" \in DOMAIN entry
    THEN \E i \in DOMAIN entry.tags : ToLowerCase(Chars(entry.tags[i])) = ToLowerCase(Chars(tag))
    ELSE FALSE

\* the filter on the query: id, owner, role, focus, tags and url, lower-cased
QueryFilter(entry, query) ==
    LET q == ToLowerCase(Chars(query))
        SomeIncludes(list) == \E i \in DOMAIN list : Includes(ToLowerCase(Chars(list[i])), q)
    IN \/ Includes(ToLowerCase(entry.id), q)
       \/ Includes(ToLowerCase(Chars(entry.owner)), q)
       \/ IF "role" \in DOMAIN entry THEN Includes(ToLowerCase(Chars(entry.role)), q) ELSE FALSE
       \/ IF "focus" \in DOMAIN entry THEN SomeIncludes(entry.focus) ELSE FALSE
       \/ IF "tags" \in DOMAIN entry THEN SomeIncludes(entry.tags) ELSE FALSE
       \/ Includes(ToLowerCase(Chars(entry.url)), q)

\* Faulty variant: a tag matches when it contains the tag asked for
registrySearchTagIncludes(bound, stored, query, tag, healthStatus) ==
    LET entries == loadRegistry(bound, stored)
        byTag == IF tag # ""
                 THEN SelectSeq(entries, LAMBDA e : QueryFilter([e EXCEPT !.owner = ""], tag))
                 ELSE entries
        byStatus == IF healthStatus # ""
                    THEN SelectSeq(byTag, LAMBDA e : e.status = healthStatus)
                    ELSE byTag
    IN IF query # "" THEN SelectSeq(byStatus, LAMBDA e : QueryFilter(e, query)) ELSE byStatus

\* registrySearch(kv, query, tag, healthStatus): an argument not given is ""
registrySearch(bound, stored, query, tag, healthStatus) ==
    LET entries == loadRegistry(bound, stored)
        byTag == IF tag # ""
                 THEN SelectSeq(entries, LAMBDA e : TagFilter(e, tag))
                 ELSE entries
        byStatus == IF healthStatus # ""
                    THEN SelectSeq(byTag, LAMBDA e : e.status = healthStatus)
                    ELSE byTag
    IN IF query # "" THEN SelectSeq(byStatus, LAMBDA e : QueryFilter(e, query)) ELSE byStatus

----------------------------------------------------------------------------
(* The health engine *)

HEALTH_CHECK_INTERVAL_MINUTES == 60

\* str.charCodeAt(i) for the characters of the urls
CharCode(c) ==
    IF \E i \in DOMAIN LowerCase : LowerCase[i] = c
    THEN 96 + (CHOOSE i \in DOMAIN LowerCase : LowerCase[i] = c)
    ELSE IF \E i \in DOMAIN UpperCase : UpperCase[i] = c
    THEN 64 + (CHOOSE i \in DOMAIN UpperCase : UpperCase[i] = c)
    ELSE CASE c = " " -> 32 [] c = "." -> 46 [] c = "/" -> 47 [] c = ":" -> 58
           [] c = "0" -> 48 [] c = "1" -> 49 [] c = "2" -> 50 [] c = "3" -> 51
           [] c = "4" -> 52 [] c = "5" -> 53 [] c = "6" -> 54 [] c = "7" -> 55
           [] c = "8" -> 56 [] c = "9" -> 57

\* The loop of hashCode: hash = ((hash << 5) - hash) + char, kept to 32 bits by
\* `hash & hash`. The 32-bit word is held as two 16-bit halves.
RECURSIVE Hash32(_)
Hash32(s) ==
    IF s = <<>>
    THEN [hi |-> 0, lo |-> 0]
    ELSE LET h == Hash32(SubSeq(s, 1, Len(s) - 1))
             low == h.lo * 31 + CharCode(s[Len(s)])
         IN [hi |-> (h.hi * 31 + low \div 65536) % 65536, lo |-> low % 65536]

\* The magnitude of a negative 32-bit word (two's complement), 2^31 included
Negated(h) ==
    IF h.lo = 0 THEN [hi |-> 65536 - h.hi, lo |-> 0]
    ELSE [hi |-> 65535 - h.hi, lo |-> 65536 - h.lo]

\* Faulty variant: the sign of the 32-bit hash is kept (no Math.abs)
hashCodeSigned(str) ==
    LET h == Hash32(Chars(str))
    IN IF h.hi < 32768
       THEN [neg |-> FALSE, hi |-> h.hi, lo |-> h.lo]
       ELSE [neg |-> TRUE] @@ Negated(h)

\* hashCode(str): Math.abs of the word read as a signed 32-bit integer. The result is a
\* JavaScript number, which holds 2^31; it is kept as sign and two 16-bit halves
hashCode(str) ==
    LET h == Hash32(Chars(str))
    IN IF h.hi < 32768
       THEN [neg |-> FALSE, hi |-> h.hi, lo |-> h.lo]
       ELSE [neg |-> FALSE] @@ Negated(h)

\* JavaScript's % on a number held as sign and halves: the remainder has the sign of
\* the dividend
JsRem(a, b) ==
    LET r == ((a.hi % b) * (65536 % b) + (a.lo % b)) % b
    IN IF a.neg THEN 0 - r ELSE r

\* Faulty variant: the absolute value is taken in 32 bits, where -2^31 has none
getDaemonCheckMinuteAbs32(url) ==
    LET h == hashCode(url)
    IN JsRem([h EXCEPT !.neg = (h.hi = 32768 /\ h.lo = 0)], HEALTH_CHECK_INTERVAL_MINUTES)

getDaemonCheckMinute(url) == JsRem(hashCode(url), HEALTH_CHECK_INTERVAL_MINUTES)

\* What a probe's fetch can do: throw (network error, timeout), or answer
WebOutcomes ==
    { [kind |-> "throw", ok |-> FALSE],
      [kind |-> "response", ok |-> FALSE],
      [kind |-> "response", ok |-> TRUE] }

\* For the tools/list POST: whether the JSON answer has result.tools
McpOutcomes ==
    { [kind |-> "throw", ok |-> FALSE, tools |-> FALSE],
      [kind |-> "response", ok |-> FALSE, tools |-> TRUE],
      [kind |-> "response", ok |-> TRUE, tools |-> FALSE],
      [kind |-> "response", ok |-> TRUE, tools |-> TRUE] }

checkWebReachable(resp) == resp.kind = "response" /\ resp.ok

checkMcpCapability(resp) == resp.kind = "response" /\ resp.ok /\ resp.tools

\* Faulty variant: a reachable web page is enough for status mcp
healthCheckDaemonWebFirst(webReachable, mcpReachable, verified, t) ==
    IF mcpReachable \/ verified \/ webReachable
    THEN [last_checked |-> t, status |-> "mcp", healthy |-> TRUE]
    ELSE [last_checked |-> t, status |-> "offline", healthy |-> FALSE]

\* healthCheckDaemon lines 154-175: the update, from the three probes' results and
\* the time read at line 143
healthCheckDaemon(webReachable, mcpReachable, verified, t) ==
    IF mcpReachable \/ verified
    THEN [last_checked |-> t, status |-> "mcp", healthy |-> TRUE]
    ELSE IF webReachable
    THEN [last_checked |-> t, status |-> "web", healthy |-> TRUE]
    ELSE [last_checked |-> t, status |-> "offline", healthy |-> FALSE]

\* Faulty variant: the update's healthy flag is not merged
MergeUpdateWithoutHealthy(entry, update) ==
    [entry EXCEPT !.last_checked = update.last_checked,
                  !.status = update.status]

\* Faulty variant: last_checked is stamped only when the status changes
MergeUpdateStampsOnChange(entry, update) ==
    IF "status" \in DOMAIN entry
    THEN IF entry.status = update.status
         THEN entry
         ELSE [last_checked |-> update.last_checked, status |-> update.status,
               healthy |-> update.healthy] @@ entry
    ELSE [last_checked |-> update.last_checked, status |-> update.status,
          healthy |-> update.healthy] @@ entry

\* { ...entry, ...update }: the three fields of the update are set, present before or not
MergeUpdate(entry, update) ==
    [last_checked |-> update.last_checked, status |-> update.status,
     healthy |-> update.healthy] @@ entry

\* announced.findIndex(e => e.url === url), 0 for -1
FindIndex(announced, url) ==
    IF \E i \in DOMAIN announced : announced[i].url = url
    THEN CHOOSE i \in DOMAIN announced :
            /\ announced[i].url = url
            /\ \A j \in DOMAIN announced : announced[j].url = url => i <= j
    ELSE 0

\* Faulty variant: the entry is found but the update is not merged into it
healthWriteBackNoMerge(announced, entry, update) ==
    [found |-> FindIndex(announced, entry.url) > 0, list |-> announced]

\* Faulty variant: an entry that is not in the overlay is added to it
healthWriteBackUpsert(announced, entry, update) ==
    IF FindIndex(announced, entry.url) > 0
    THEN [found |-> TRUE,
          list |-> [announced EXCEPT ![FindIndex(announced, entry.url)] =
                       MergeUpdate(@, update)]]
    ELSE [found |-> TRUE, list |-> Append(announced, MergeUpdate(entry, update))]

\* Faulty variant: the entry as it was loaded replaces the stored one, and a failed
\* check withdraws the verification
healthWriteBackReplace(announced, entry, update) ==
    IF FindIndex(announced, entry.url) > 0
    THEN [found |-> TRUE,
          list |-> [announced EXCEPT ![FindIndex(announced, entry.url)] =
                       [MergeUpdate(entry, update) EXCEPT !.verified = update.healthy]]]
    ELSE [found |-> FALSE, list |-> announced]

\* idx = announced.findIndex(e => e.url === url);
\* if (idx >= 0) announced[idx] = { ...announced[idx], ...update }
healthWriteBack(announced, entry, update) ==
    IF FindIndex(announced, entry.url) > 0
    THEN [found |-> TRUE,
          list |-> [announced EXCEPT ![FindIndex(announced, entry.url)] =
                       MergeUpdate(@, update)]]
    ELSE [found |-> FALSE, list |-> announced]

\* Faulty variant: all three probes are started together
verifyMayStartAtOnce(probes) == TRUE

\* healthCheckDaemon lines 146-152: verifyDaemon is called once Promise.all of the
\* two other probes has resolved
verifyMayStart(probes) == probes.web = "done" /\ probes.mcp = "done"

----------------------------------------------------------------------------
(* Requests *)

Procs == 1..NumProcs

\* The tool arguments tried: <<id, url, owner>>, "" for a field that is not given
AnnounceInputs ==
    { <<"", UrlX, "Ada">>, <<"", UrlXHttp, "Ada">>, <<"", UrlY, "Ada">>,
      <<"", UrlSeed, "Ada">>, <<"", UrlBad, "Ada">>,
      <<"io.saltedkeys.swift", UrlY, "Ada">>, <<"", UrlX, "">>,
      <<"io.saltedkeys.swift", UrlBad, "Ada">> }

\* The arguments of one daemon_registry_announce call and the transport it came by:
\* the JSON-RPC handler passes the client's address, the SSE tool passes none (over
\* SSE a new url, the same url again and a malformed one are tried)
AnnounceArgs ==
    { [via |-> "rpc", id |-> i[1], url |-> i[2], owner |-> i[3], clientIp |-> c] :
        i \in AnnounceInputs, c \in Clients }
    \cup
    { [via |-> "sse", id |-> i[1], url |-> i[2], owner |-> i[3], clientIp |-> ""] :
        i \in {j \in AnnounceInputs : j[1] = "" /\ j[2] \in {UrlX, UrlBad} /\ j[3] # ""} }

\* The calls that are made concurrently: JSON-RPC announces of two new daemons
RaceArgs ==
    {a \in AnnounceArgs :
        a.via = "rpc" /\ a.id = "" /\ a.owner = "Ada" /\ a.url \in {UrlX, UrlY}}

\* The handler's locals; resp is what the verifier's fetch came back with
\* `io` counts the store operations and fetches the request has made; `hc` holds the
\* locals of a health check
NoLoc == [id |-> <<>>, resp |-> Null, verification |-> Null, newEntry |-> Null,
          announced |-> <<>>, rlRecord |-> Absent, rlNow |-> 0, events |-> <<>>,
          io |-> [gets |-> 0, puts |-> 0, fetches |-> 0], hc |-> Null]

\* The locals dropped when the handler returns (what the fetch returned and what
\* the request did are kept)
Returned(l) == [NoLoc EXCEPT !.resp = l.resp, !.io = l.io]

\* One more kv.get, kv.put or fetch made by the request
Got(l) == [l EXCEPT !.io.gets = @ + 1]

Put(l) == [l EXCEPT !.io.puts = @ + 1]

Fetched(l) == [l EXCEPT !.io.fetches = @ + 1]

\* loadRegistry reads the store only when one is bound
Loaded(l) == IF kvBound THEN Got(l) ELSE l

Store == [announced |-> kvAnnounced, activity |-> kvActivity, rate |-> kvRate]

\* `entry as DaemonEntry`: the caller's object handed back on a failure
GivenEntry(a) == [id |-> a.id, url |-> a.url, owner |-> a.owner]

\* Faulty variant: health follows the verification
NewEntryHealthyIfVerified(a, id, verification, t) ==
    [id |-> id, url |-> a.url, owner |-> a.owner,
     announced_at |-> t, verified |-> verification.verified, verified_at |-> t,
     last_checked |-> t,
     status |-> IF verification.verified THEN "mcp" ELSE "web",
     healthy |-> verification.verified]

\* registryAnnounce lines 201-210
NewEntry(a, id, verification, t) ==
    [id |-> id, url |-> a.url, owner |-> a.owner,
     announced_at |-> t, verified |-> verification.verified, verified_at |-> t,
     last_checked |-> t,
     status |-> IF verification.verified THEN "mcp" ELSE "web",
     healthy |-> TRUE]

\* registryAnnounce lines 224-229
AnnouncedEvent(a, verification) ==
    [type |-> "daemon_announced", daemon_url |-> a.url, daemon_owner |-> a.owner,
     timestamp |-> NoTime, details |-> [verified |-> verification.verified]]

\* registryAnnounce lines 232-249
SuccessResult(entry, verification, rateLimit) ==
    [kind |-> "result", success |-> TRUE, entry |-> entry,
     message |-> IF verification.verified THEN "Daemon announced and verified successfully"
                 ELSE "Daemon announced but verification failed (daemon.md not accessible)",
     verification_error |-> verification.error,
     rate_limit |-> rateLimit]

\* registryAnnounce lines 166-171, 183, 187, 194
Failure(entry, message, rateLimit) ==
    [kind |-> "result", success |-> FALSE, entry |-> entry, message |-> message,
     verification_error |-> "", rate_limit |-> rateLimit]

\* Where registryAnnounce first touches the store: the rate-limit check when a store
\* and a client address are given, else the registry load
AnnounceEntry(a) == IF kvBound /\ a.clientIp # "" THEN "rate" ELSE "load"

\* What the store holds after one client has announced the first n of PriorUrls
\* at the epoch, one after the other
\* The urls of the entries the registry can come to hold
KnownUrls == {UrlSeed, UrlX, UrlXHttp, UrlY} \cup Range(PriorUrls) \cup Range(TwinUrls)

PriorEntries(n) ==
    [i \in 1..n |-> NewEntry([url |-> PriorUrls[i], owner |-> "Ada"],
                             deriveIdFromUrl(PriorUrls[i], "Ada"),
                             [verified |-> FALSE], 0)]

PriorEvents(n) ==
    [i \in 1..n |->
        [AnnouncedEvent([url |-> PriorUrls[n + 1 - i], owner |-> "Ada"],
                        [verified |-> FALSE]) EXCEPT !.timestamp = 0]]

\* The store is empty, or holds what RATE_LIMIT_MAX_ANNOUNCES - 1 earlier announces
\* of one client have left in it
Init ==
    /\ kvBound \in BOOLEAN
    /\ \E n \in (IF kvBound THEN {0, RATE_LIMIT_MAX_ANNOUNCES - 1} ELSE {0}) :
        \E c \in Clients :
            /\ kvAnnounced = IF n = 0 THEN Absent ELSE [json |-> PriorEntries(n)]
            /\ kvActivity = IF n = 0 THEN Absent ELSE [json |-> PriorEvents(n)]
            /\ kvRate = [d \in Clients |->
                            IF n = 0 \/ d # c THEN Absent
                            ELSE [count |-> n, windowStart |-> 0,
                                  expiresAt |-> RATE_LIMIT_TTL_S * 1000]]
    /\ now = 0
    /\ ticks = 0
    /\ pc = [p \in Procs |-> "idle"]
    /\ args = [p \in Procs |-> Null]
    /\ loc = [p \in Procs |-> NoLoc]
    /\ result = [p \in Procs |-> Null]
    /\ before = Null
    /\ rlLast = Null
    /\ triggers = 0
    /\ swept = [u \in KnownUrls |-> 0]
    /\ appended = 0
    /\ daemonCache = Null

\* The store of a deployment whose overlay holds the two daemons of TwinUrls,
\* announced at the epoch
TwinEntries ==
    [i \in 1..2 |-> NewEntry([url |-> TwinUrls[i], owner |-> "Ada"],
                             deriveIdFromUrl(TwinUrls[i], "Ada"),
                             [verified |-> FALSE], 0)]

TwinEvents ==
    [i \in 1..2 |->
        [AnnouncedEvent([url |-> TwinUrls[3 - i], owner |-> "Ada"],
                        [verified |-> FALSE]) EXCEPT !.timestamp = 0]]

InitTwins ==
    /\ kvBound = TRUE
    /\ kvAnnounced = [json |-> TwinEntries]
    /\ kvActivity = [json |-> TwinEvents]
    /\ kvRate = [d \in Clients |-> Absent]
    /\ now = 0
    /\ ticks = 0
    /\ pc = [p \in Procs |-> "idle"]
    /\ args = [p \in Procs |-> Null]
    /\ loc = [p \in Procs |-> NoLoc]
    /\ result = [p \in Procs |-> Null]
    /\ before = Null
    /\ rlLast = Null
    /\ triggers = 0
    /\ swept = [u \in KnownUrls |-> 0]
    /\ appended = 0
    /\ daemonCache = Null

\* A request arrives, its arguments among `inputs` (requests are numbered in the
\* order in which they arrive)
Begin(p, inputs) ==
    /\ pc[p] = "idle"
    /\ \A q \in Procs : q < p => pc[q] # "idle"
    /\ \E a \in inputs :
        /\ args' = [args EXCEPT ![p] = a]
        /\ pc' = [pc EXCEPT ![p] = IF a.via = "rpc" THEN "rpc_load" ELSE AnnounceEntry(a)]
    /\ before' = IF \A q \in Procs : pc[q] \in {"idle", "returned"}
                  THEN [store |-> Store, at |-> now] ELSE Null
    /\ UNCHANGED <<healthVars, kvBound, kvAnnounced, kvActivity, kvRate, now, ticks, loc, result, rlLast>>

\* handleJsonRpc: loads the registry for every tools/call, then rejects an
\* announce without url or owner
RpcLoad(p) ==
    /\ pc[p] = "rpc_load"
    /\ IF args[p].url = "" \/ args[p].owner = ""
       THEN /\ result' = [result EXCEPT ![p] =
                            [kind |-> "error", success |-> FALSE, entry |-> Null,
                             message |-> "Missing required fields: url and owner",
                             verification_error |-> "", rate_limit |-> Null]]
            /\ pc' = [pc EXCEPT ![p] = "done"]
       ELSE /\ pc' = [pc EXCEPT ![p] = AnnounceEntry(args[p])]
            /\ UNCHANGED result
    /\ loc' = [loc EXCEPT ![p] = Loaded(loc[p])]
    /\ UNCHANGED <<healthVars, kvBound, kvAnnounced, kvActivity, kvRate, now, ticks, args, before, rlLast>>

\* registryAnnounce lines 162-173
\* Faulty variant: the duplicate-URL check comes before the rate limit
AnnounceCheckUrlThenRate(p) ==
    /\ pc[p] = "rate"
    /\ LET rateLimit == checkRateLimit(kvRate, args[p].clientIp, now)
           existingByUrl == FindByUrl(loadRegistry(kvBound, kvAnnounced), args[p].url)
       IN /\ kvRate' = checkRateLimitStore(kvRate, args[p].clientIp, now)
          /\ IF existingByUrl # Null
             THEN /\ result' = [result EXCEPT ![p] =
                                  Failure(existingByUrl, "Daemon already registered (URL exists)", Null)]
                  /\ pc' = [pc EXCEPT ![p] = "done"]
             ELSE IF ~rateLimit.allowed
             THEN /\ result' = [result EXCEPT ![p] =
                                  Failure(GivenEntry(args[p]), "Rate limit exceeded",
                                          [remaining |-> 0, resetIn |-> rateLimit.resetIn])]
                  /\ pc' = [pc EXCEPT ![p] = "done"]
             ELSE /\ pc' = [pc EXCEPT ![p] = "load"]
                  /\ UNCHANGED result
    /\ loc' = [loc EXCEPT ![p] = Got(loc[p])]
    /\ UNCHANGED <<healthVars, kvBound, kvAnnounced, kvActivity, now, ticks, args, before, rlLast>>

AnnounceCheckRate(p) ==
    /\ pc[p] = "rate"
    /\ LET rateLimit == checkRateLimit(kvRate, args[p].clientIp, now)
       IN /\ kvRate' = checkRateLimitStore(kvRate, args[p].clientIp, now)
          /\ IF ~rateLimit.allowed
             THEN /\ result' = [result EXCEPT ![p] =
                                  Failure(GivenEntry(args[p]), "Rate limit exceeded",
                                          [remaining |-> 0, resetIn |-> rateLimit.resetIn])]
                  /\ pc' = [pc EXCEPT ![p] = "done"]
             ELSE /\ pc' = [pc EXCEPT ![p] = "load"]
                  /\ UNCHANGED result
    /\ loc' = [loc EXCEPT ![p] = Got(loc[p])]
    /\ UNCHANGED <<healthVars, kvBound, kvAnnounced, kvActivity, now, ticks, args, before, rlLast>>

\* registryAnnounce lines 175-195
AnnounceLoad(p) ==
    /\ pc[p] = "load"
    /\ LET a == args[p]
           entries == loadRegistry(kvBound, kvAnnounced)
           id == IF a.id # "" THEN Chars(a.id) ELSE deriveIdFromUrl(a.url, a.owner)
           existingByUrl == FindByUrl(entries, a.url)
           existingById == FindById(entries, id)
       IN IF existingByUrl # Null
          THEN /\ result' = [result EXCEPT ![p] =
                               Failure(existingByUrl, "Daemon already registered (URL exists)", Null)]
               /\ pc' = [pc EXCEPT ![p] = "done"]
               /\ loc' = [loc EXCEPT ![p] = Loaded(loc[p])]
          ELSE IF existingById # Null
          THEN /\ result' = [result EXCEPT ![p] =
                               Failure(existingById, "Daemon ID already registered", Null)]
               /\ pc' = [pc EXCEPT ![p] = "done"]
               /\ loc' = [loc EXCEPT ![p] = Loaded(loc[p])]
          ELSE IF ~ParseURL(a.url).ok
          THEN /\ result' = [result EXCEPT ![p] =
                               Failure(GivenEntry(a), "Invalid URL format", Null)]
               /\ pc' = [pc EXCEPT ![p] = "done"]
               /\ loc' = [loc EXCEPT ![p] = Loaded(loc[p])]
          ELSE /\ loc' = [loc EXCEPT ![p] = [Loaded(loc[p]) EXCEPT !.id = id]]
               /\ pc' = [pc EXCEPT ![p] = "verify"]
               /\ UNCHANGED result
    /\ UNCHANGED <<healthVars, kvBound, kvAnnounced, kvActivity, kvRate, now, ticks, args, before, rlLast>>

\* registryAnnounce lines 197-213, and 232-249 when no store is bound
AnnounceVerify(p) ==
    /\ pc[p] = "verify"
    /\ \E resp \in FetchOutcomes :
        LET verification == verifyDaemon(resp)
            newEntry == NewEntry(args[p], loc[p].id, verification, now)
        IN IF kvBound
           THEN /\ loc' = [loc EXCEPT ![p] = [Fetched(loc[p]) EXCEPT
                                                  !.resp = resp,
                                                  !.verification = verification,
                                                  !.newEntry = newEntry]]
                /\ pc' = [pc EXCEPT ![p] = "get"]
                /\ UNCHANGED result
           ELSE /\ result' = [result EXCEPT ![p] = SuccessResult(newEntry, verification, Null)]
                /\ pc' = [pc EXCEPT ![p] = "done"]
                /\ loc' = [loc EXCEPT ![p] =
                              Returned([Fetched(loc[p]) EXCEPT !.resp = resp])]
    /\ UNCHANGED <<healthVars, kvBound, kvAnnounced, kvActivity, kvRate, now, ticks, args, before, rlLast>>

\* registryAnnounce lines 214-215
AnnounceGet(p) ==
    /\ pc[p] = "get"
    /\ loc' = [loc EXCEPT ![p] = [Got(loc[p]) EXCEPT !.announced =
                 Append(getAnnouncedFromKV(kvAnnounced), loc[p].newEntry)]]
    /\ pc' = [pc EXCEPT ![p] = "save"]
    /\ UNCHANGED <<healthVars, kvBound, kvAnnounced, kvActivity, kvRate, now, ticks, args, result, before, rlLast>>

\* registryAnnounce line 216
AnnounceSave(p) ==
    /\ pc[p] = "save"
    /\ kvAnnounced' = saveAnnouncedToKV(loc[p].announced)
    /\ loc' = [loc EXCEPT ![p] = [Put(loc[p]) EXCEPT !.announced = <<>>]]
    /\ pc' = [pc EXCEPT ![p] = IF args[p].clientIp # "" THEN "rec_get" ELSE "act_get"]
    /\ UNCHANGED <<healthVars, kvBound, kvActivity, kvRate, now, ticks, args, result, before, rlLast>>

\* recordRateLimitHit: Date.now() and kv.get
AnnounceRecordGet(p) ==
    /\ pc[p] = "rec_get"
    /\ loc' = [loc EXCEPT ![p] = [Got(loc[p]) EXCEPT
                                      !.rlRecord = kvRate[args[p].clientIp], !.rlNow = now]]
    /\ pc' = [pc EXCEPT ![p] = "rec_put"]
    /\ UNCHANGED <<healthVars, kvBound, kvAnnounced, kvActivity, kvRate, now, ticks, args, result, before, rlLast>>

\* recordRateLimitHit: kv.put
AnnounceRecordPut(p) ==
    /\ pc[p] = "rec_put"
    /\ kvRate' = putRateRecord(kvRate, args[p].clientIp,
                               nextRateRecord(loc[p].rlRecord, loc[p].rlNow), now)
    /\ loc' = [loc EXCEPT ![p] = [Put(loc[p]) EXCEPT !.rlRecord = Absent, !.rlNow = 0]]
    /\ pc' = [pc EXCEPT ![p] = "act_get"]
    /\ UNCHANGED <<healthVars, kvBound, kvAnnounced, kvActivity, now, ticks, args, result, before, rlLast>>

\* addActivityEvent: loadActivityFeed
AnnounceActivityGet(p) ==
    /\ pc[p] = "act_get"
    /\ loc' = [loc EXCEPT ![p] = [Got(loc[p]) EXCEPT !.events = loadActivityFeed(kvActivity)]]
    /\ pc' = [pc EXCEPT ![p] = "act_put"]
    /\ UNCHANGED <<healthVars, kvBound, kvAnnounced, kvActivity, kvRate, now, ticks, args, result, before, rlLast>>

\* addActivityEvent: kv.put; then registryAnnounce lines 232-249 when no client
\* address was given
AnnounceActivityPut(p) ==
    /\ pc[p] = "act_put"
    /\ kvActivity' = addActivityEvent(loc[p].events,
                                      AnnouncedEvent(args[p], loc[p].verification), now)
    /\ IF args[p].clientIp # ""
       THEN /\ pc' = [pc EXCEPT ![p] = "final"]
            /\ loc' = [loc EXCEPT ![p] = [Put(loc[p]) EXCEPT !.events = <<>>]]
            /\ UNCHANGED result
       ELSE /\ result' = [result EXCEPT ![p] =
                            SuccessResult(loc[p].newEntry, loc[p].verification, Null)]
            /\ pc' = [pc EXCEPT ![p] = "done"]
            /\ loc' = [loc EXCEPT ![p] = Returned(Put(loc[p]))]
    /\ UNCHANGED <<healthVars, kvBound, kvAnnounced, kvRate, now, ticks, args, before, rlLast>>

\* registryAnnounce lines 236-249
AnnounceFinal(p) ==
    /\ pc[p] = "final"
    /\ LET rl == checkRateLimit(kvRate, args[p].clientIp, now)
       IN /\ kvRate' = checkRateLimitStore(kvRate, args[p].clientIp, now)
          /\ result' = [result EXCEPT ![p] =
                          SuccessResult(loc[p].newEntry, loc[p].verification,
                                        [remaining |-> rl.remaining, resetIn |-> rl.resetIn])]
    /\ pc' = [pc EXCEPT ![p] = "done"]
    /\ loc' = [loc EXCEPT ![p] = Returned(Got(loc[p]))]
    /\ UNCHANGED <<healthVars, kvBound, kvAnnounced, kvActivity, now, ticks, args, before, rlLast>>

\* The caller has taken the result; nothing of the request is kept
Return(p) ==
    /\ pc[p] = "done"
    /\ pc' = [pc EXCEPT ![p] = "returned"]
    /\ args' = [args EXCEPT ![p] = Null]
    /\ result' = [result EXCEPT ![p] = Null]
    /\ loc' = [loc EXCEPT ![p] = NoLoc]
    /\ before' = Null
    /\ UNCHANGED <<healthVars, kvBound, kvAnnounced, kvActivity, kvRate, now, ticks, rlLast>>

----------------------------------------------------------------------------
(* The environment: the clock and the store's expiry of rate-limit records *)

ClockSteps == {1, RATE_LIMIT_WINDOW_MS, RATE_LIMIT_WINDOW_MS + 1}

\* No request is in flight
Quiet == \A q \in Procs : pc[q] \in {"idle", "returned"}

\* Time passes: a millisecond at any point, an hour only between requests (a request
\* lasts seconds: its one fetch is aborted after 10 s)
Tick ==
    /\ ticks < MaxTicks
    /\ \E d \in ClockSteps :
        /\ d = 1 \/ Quiet
        /\ now' = now + d
    /\ ticks' = ticks + 1
    /\ rlLast' = Null
    /\ UNCHANGED <<healthVars, kvBound, kvAnnounced, kvActivity, kvRate, pc, args, loc, result, before>>

\* A record put with expirationTtl is dropped by the store once the time is up
\* (`before` follows: it is the store as it would be without the request)
KvExpire(c) ==
    /\ kvRate[c] # Absent
    /\ now >= kvRate[c].expiresAt
    /\ kvRate' = [kvRate EXCEPT ![c] = Absent]
    /\ before' = IF before = Null THEN Null ELSE [before EXCEPT !.store.rate[c] = Absent]
    /\ rlLast' = Null
    /\ UNCHANGED <<healthVars, kvBound, kvAnnounced, kvActivity, now, ticks, pc, args, loc, result>>

----------------------------------------------------------------------------
(* Direct calls of the rate limiter *)

RLCheck(c) ==
    /\ kvBound
    /\ rlLast' = [op |-> "check", ip |-> c, at |-> now, store |-> kvRate,
                  out |-> checkRateLimit(kvRate, c, now)]
    /\ kvRate' = checkRateLimitStore(kvRate, c, now)
    /\ UNCHANGED <<healthVars, kvBound, kvAnnounced, kvActivity, now, ticks, pc, args, loc, result, before>>

RLRecord(c) ==
    /\ kvBound
    /\ (IF kvRate[c] = Absent THEN TRUE ELSE kvRate[c].count < MaxCount)
    /\ rlLast' = [op |-> "record", ip |-> c, at |-> now, store |-> kvRate, out |-> Null]
    /\ kvRate' = recordRateLimitHit(kvRate, c, now)
    /\ UNCHANGED <<healthVars, kvBound, kvAnnounced, kvActivity, now, ticks, pc, args, loc, result, before>>

----------------------------------------------------------------------------
(* Health checks: the manual tool and the scheduled sweep *)

\* The locals of a health check: the entry under check, the time read when the check
\* began, each probe's progress and result, the update; and for a sweep the due
\* entries still to check, the updates collected, the number of them applied
NoHc == [entry |-> Null, at |-> 0,
         probes |-> [web |-> "idle", mcp |-> "idle", verify |-> "idle"],
         web |-> FALSE, mcp |-> FALSE, verified |-> FALSE, update |-> Null,
         queue |-> <<>>, updates |-> <<>>, applied |-> 0, updated |-> FALSE]

\* healthCheckDaemon(entry) up to its first await: the clock is read and the plain
\* GET and the tools/list POST are issued
StartCheck(h, entry, t) ==
    [h EXCEPT !.entry = entry, !.at = t,
              !.probes = [web |-> "started", mcp |-> "started", verify |-> "idle"],
              !.web = FALSE, !.mcp = FALSE, !.verified = FALSE, !.update = Null]

AllProbesDone(h) ==
    h.probes.web = "done" /\ h.probes.mcp = "done" /\ h.probes.verify = "done"

HealthArgs ==
    { [via |-> "rpc", tool |-> "health", id |-> "", url |-> u, owner |-> "", clientIp |-> c] :
        u \in {UrlSeed, PriorUrls[1], UrlX}, c \in Clients }

HealthResult(entry, update) ==
    [kind |-> "health", success |-> TRUE, entry |-> MergeUpdate(entry, update),
     health_update |-> update, message |-> "Health check completed"]

HealthChangedEvent(u) ==
    [type |-> "health_changed", daemon_url |-> u.entry.url, daemon_owner |-> u.entry.owner,
     timestamp |-> NoTime, details |-> [old_status |-> u.oldStatus, new_status |-> u.update.status]]

\* A daemon_registry_health_check call arrives
BeginHealth(p) ==
    /\ pc[p] = "idle"
    /\ \A q \in Procs : q < p => pc[q] # "idle"
    /\ \E a \in HealthArgs : args' = [args EXCEPT ![p] = a]
    /\ pc' = [pc EXCEPT ![p] = "hc_load"]
    /\ before' = IF \A q \in Procs : pc[q] \in {"idle", "returned"}
                  THEN [store |-> Store, at |-> now] ELSE Null
    /\ UNCHANGED <<healthVars, kvBound, kvAnnounced, kvActivity, kvRate, now, ticks, loc, result, rlLast>>

\* handleJsonRpc line 55, then registryHealthCheck lines 256-263
HcLoad(p) ==
    /\ pc[p] = "hc_load"
    /\ LET entry == FindByUrl(loadRegistry(kvBound, kvAnnounced), args[p].url)
           l == Loaded(Loaded(loc[p]))
       IN IF entry = Null
          THEN /\ result' = [result EXCEPT ![p] =
                               [kind |-> "health", success |-> FALSE, entry |-> Null,
                                health_update |-> Null, message |-> "Daemon not found"]]
               /\ pc' = [pc EXCEPT ![p] = "done"]
               /\ loc' = [loc EXCEPT ![p] = l]
          ELSE /\ loc' = [loc EXCEPT ![p] = [l EXCEPT !.hc = StartCheck(NoHc, entry, now)]]
               /\ pc' = [pc EXCEPT ![p] = "hc_probe"]
               /\ UNCHANGED result
    /\ UNCHANGED <<healthVars, kvBound, kvAnnounced, kvActivity, kvRate, now, ticks, args, before, rlLast>>

\* checkWebReachable's fetch settles
ProbeWebDone(p) ==
    /\ pc[p] \in {"hc_probe", "sw_probe"}
    /\ loc[p].hc.probes.web = "started"
    /\ \E resp \in WebOutcomes :
        loc' = [loc EXCEPT ![p] = [Fetched(loc[p]) EXCEPT
                                      !.hc.probes.web = "done",
                                      !.hc.web = checkWebReachable(resp)]]
    /\ UNCHANGED <<healthVars, kvBound, kvAnnounced, kvActivity, kvRate, now, ticks, pc, args, result, before, rlLast>>

\* checkMcpCapability's fetch settles
ProbeMcpDone(p) ==
    /\ pc[p] \in {"hc_probe", "sw_probe"}
    /\ loc[p].hc.probes.mcp = "started"
    /\ \E resp \in McpOutcomes :
        loc' = [loc EXCEPT ![p] = [Fetched(loc[p]) EXCEPT
                                      !.hc.probes.mcp = "done",
                                      !.hc.mcp = checkMcpCapability(resp)]]
    /\ UNCHANGED <<healthVars, kvBound, kvAnnounced, kvActivity, kvRate, now, ticks, pc, args, result, before, rlLast>>

\* verifyDaemon(entry.url) is called
ProbeVerifyStart(p) ==
    /\ pc[p] \in {"hc_probe", "sw_probe"}
    /\ loc[p].hc.probes.verify = "idle"
    /\ verifyMayStart(loc[p].hc.probes)
    /\ loc' = [loc EXCEPT ![p].hc.probes.verify = "started"]
    /\ UNCHANGED <<healthVars, kvBound, kvAnnounced, kvActivity, kvRate, now, ticks, pc, args, result, before, rlLast>>

\* verifyDaemon's fetch settles
ProbeVerifyDone(p) ==
    /\ pc[p] \in {"hc_probe", "sw_probe"}
    /\ loc[p].hc.probes.verify = "started"
    /\ \E resp \in FetchOutcomes :
        loc' = [loc EXCEPT ![p] = [Fetched(loc[p]) EXCEPT
                                      !.hc.probes.verify = "done",
                                      !.hc.verified = verifyDaemon(resp).verified]]
    /\ UNCHANGED <<healthVars, kvBound, kvAnnounced, kvActivity, kvRate, now, ticks, pc, args, result, before, rlLast>>

\* healthCheckDaemon lines 154-175, then registryHealthCheck lines 264-267
HcResolve(p) ==
    /\ pc[p] = "hc_probe"
    /\ AllProbesDone(loc[p].hc)
    /\ LET h == loc[p].hc
           update == healthCheckDaemon(h.web, h.mcp, h.verified, h.at)
       IN /\ loc' = [loc EXCEPT ![p].hc.update = update]
          /\ IF kvBound
             THEN /\ pc' = [pc EXCEPT ![p] = "hc_get"]
                  /\ UNCHANGED result
             ELSE /\ pc' = [pc EXCEPT ![p] = "done"]
                  /\ result' = [result EXCEPT ![p] = HealthResult(h.entry, update)]
    /\ UNCHANGED <<healthVars, kvBound, kvAnnounced, kvActivity, kvRate, now, ticks, args, before, rlLast>>

\* registryHealthCheck lines 268-271, and 276-281 when the entry is not in the overlay
HcGet(p) ==
    /\ pc[p] = "hc_get"
    /\ LET h == loc[p].hc
           wb == healthWriteBack(getAnnouncedFromKV(kvAnnounced), h.entry, h.update)
       IN IF wb.found
          THEN /\ loc' = [loc EXCEPT ![p] = [Got(loc[p]) EXCEPT !.announced = wb.list]]
               /\ pc' = [pc EXCEPT ![p] = "hc_save"]
               /\ UNCHANGED result
          ELSE /\ loc' = [loc EXCEPT ![p] = Got(loc[p])]
               /\ pc' = [pc EXCEPT ![p] = "done"]
               /\ result' = [result EXCEPT ![p] = HealthResult(h.entry, h.update)]
    /\ UNCHANGED <<healthVars, kvBound, kvAnnounced, kvActivity, kvRate, now, ticks, args, before, rlLast>>

\* registryHealthCheck lines 272-281
HcSave(p) ==
    /\ pc[p] = "hc_save"
    /\ kvAnnounced' = saveAnnouncedToKV(loc[p].announced)
    /\ loc' = [loc EXCEPT ![p] = [Put(loc[p]) EXCEPT !.announced = <<>>]]
    /\ pc' = [pc EXCEPT ![p] = "done"]
    /\ result' = [result EXCEPT ![p] = HealthResult(loc[p].hc.entry, loc[p].hc.update)]
    /\ UNCHANGED <<healthVars, kvBound, kvActivity, kvRate, now, ticks, args, before, rlLast>>

\* scheduled lines 348-350: the entries due at the trigger's minute, in registry order
DueEntries(entries, currentMinute) ==
    SelectSeq(entries, LAMBDA e : getDaemonCheckMinute(e.url) = currentMinute)

SweepResult == [kind |-> "sweep", success |-> TRUE]

\* The cron trigger fires, its scheduledTime in minute `m` of the hour (the worker
\* of a deployment with the store bound)
\* entry.status, optional in DaemonEntry: "" stands for undefined (both are falsy)
StatusOf(entry) == IF "status" \in DOMAIN entry THEN entry.status ELSE ""

\* Faulty variant: an undefined old status counts as a change
statusChangedOrNew(oldStatus, newStatus) == newStatus # "" /\ oldStatus # newStatus

\* oldStatus && update.status && oldStatus !== update.status
statusChanged(oldStatus, newStatus) ==
    oldStatus # "" /\ newStatus # "" /\ oldStatus # newStatus

BeginSweep(p, minutes) ==
    /\ kvBound
    /\ pc[p] = "idle"
    /\ \A q \in Procs : q < p => pc[q] # "idle"
    /\ \E m \in minutes :
        args' = [args EXCEPT ![p] = [via |-> "cron", tool |-> "sweep", minute |-> m,
                                      id |-> "", url |-> "", owner |-> "", clientIp |-> ""]]
    /\ pc' = [pc EXCEPT ![p] = "sw_load"]
    /\ triggers' = triggers + 1
    /\ before' = IF \A q \in Procs : pc[q] \in {"idle", "returned"}
                  THEN [store |-> Store, at |-> now] ELSE Null
    /\ UNCHANGED <<swept, appended, daemonCache, kvBound, kvAnnounced, kvActivity, kvRate, now, ticks, loc, result, rlLast>>

\* scheduled lines 345-353 (and 386 when nothing is due)
SwLoad(p) ==
    /\ pc[p] = "sw_load"
    /\ LET due == DueEntries(loadRegistry(kvBound, kvAnnounced), args[p].minute)
           l == Loaded(loc[p])
       IN IF due = <<>>
          THEN /\ pc' = [pc EXCEPT ![p] = "done"]
               /\ result' = [result EXCEPT ![p] = SweepResult]
               /\ loc' = [loc EXCEPT ![p] = [l EXCEPT !.hc = NoHc]]
          ELSE /\ pc' = [pc EXCEPT ![p] = "sw_probe"]
               /\ loc' = [loc EXCEPT ![p] =
                            [l EXCEPT !.hc = StartCheck([NoHc EXCEPT !.queue = Tail(due)],
                                                        Head(due), now)]]
               /\ UNCHANGED result
    /\ UNCHANGED <<healthVars, kvBound, kvAnnounced, kvActivity, kvRate, now, ticks, args, before, rlLast>>

\* healthCheckDaemon lines 154-175, then scheduled line 354 and the next due entry
\* (lines 348-353), or line 361 after the last one
SwResolve(p) ==
    /\ pc[p] = "sw_probe"
    /\ AllProbesDone(loc[p].hc)
    /\ LET h == loc[p].hc
           update == healthCheckDaemon(h.web, h.mcp, h.verified, h.at)
           h1 == [h EXCEPT !.updates = Append(@, [entry |-> h.entry,
                                                  oldStatus |-> StatusOf(h.entry),
                                                  update |-> update,
                                                  web |-> h.web, mcp |-> h.mcp,
                                                  verified |-> h.verified])]
       IN /\ swept' = [swept EXCEPT ![h.entry.url] = @ + 1]
          /\ IF h.queue # <<>>
             THEN /\ loc' = [loc EXCEPT ![p].hc =
                               StartCheck([h1 EXCEPT !.queue = Tail(h.queue)],
                                          Head(h.queue), now)]
                  /\ UNCHANGED pc
             ELSE /\ loc' = [loc EXCEPT ![p].hc = h1]
                  /\ pc' = [pc EXCEPT ![p] = "sw_get"]
    /\ UNCHANGED <<triggers, appended, daemonCache, kvBound, kvAnnounced, kvActivity, kvRate, now, ticks, args, result, before, rlLast>>

\* scheduled lines 361-362
SwGet(p) ==
    /\ pc[p] = "sw_get"
    /\ loc' = [loc EXCEPT ![p] = [Got(loc[p]) EXCEPT
                                     !.announced = getAnnouncedFromKV(kvAnnounced)]]
    /\ pc' = [pc EXCEPT ![p] = "sw_apply"]
    /\ UNCHANGED <<healthVars, kvBound, kvAnnounced, kvActivity, kvRate, now, ticks, args, result, before, rlLast>>

\* Where the sweep goes once an update is dealt with: the next update, the save
\* (lines 381-383), or the end
AfterUpdate(h) ==
    IF h.applied < Len(h.updates) THEN "sw_apply"
    ELSE IF h.updated THEN "sw_save" ELSE "done"

\* scheduled lines 364-371, one update
SwApply(p) ==
    /\ pc[p] = "sw_apply"
    /\ LET h == loc[p].hc
           u == h.updates[h.applied + 1]
           wb == healthWriteBack(loc[p].announced, u.entry, u.update)
           h1 == [h EXCEPT !.applied = @ + 1, !.updated = @ \/ wb.found]
           next == IF statusChanged(u.oldStatus, u.update.status)
                   THEN "sw_act_get" ELSE AfterUpdate(h1)
       IN /\ loc' = [loc EXCEPT ![p].hc = h1, ![p].announced = wb.list]
          /\ pc' = [pc EXCEPT ![p] = next]
          /\ IF next = "done"
             THEN result' = [result EXCEPT ![p] = SweepResult]
             ELSE UNCHANGED result
    /\ UNCHANGED <<healthVars, kvBound, kvAnnounced, kvActivity, kvRate, now, ticks, args, before, rlLast>>

\* addActivityEvent: loadActivityFeed
SwActivityGet(p) ==
    /\ pc[p] = "sw_act_get"
    /\ loc' = [loc EXCEPT ![p] = [Got(loc[p]) EXCEPT !.events = loadActivityFeed(kvActivity)]]
    /\ pc' = [pc EXCEPT ![p] = "sw_act_put"]
    /\ UNCHANGED <<healthVars, kvBound, kvAnnounced, kvActivity, kvRate, now, ticks, args, result, before, rlLast>>

\* addActivityEvent: kv.put; then the next update, the save or the end
SwActivityPut(p) ==
    /\ pc[p] = "sw_act_put"
    /\ LET h == loc[p].hc
       IN /\ kvActivity' = addActivityEvent(loc[p].events,
                                            HealthChangedEvent(h.updates[h.applied]), now)
          /\ loc' = [loc EXCEPT ![p] = [Put(loc[p]) EXCEPT !.events = <<>>]]
          /\ pc' = [pc EXCEPT ![p] = AfterUpdate(h)]
          /\ IF AfterUpdate(h) = "done"
             THEN result' = [result EXCEPT ![p] = SweepResult]
             ELSE UNCHANGED result
    /\ UNCHANGED <<healthVars, kvBound, kvAnnounced, kvRate, now, ticks, args, before, rlLast>>

\* scheduled lines 381-386
SwSave(p) ==
    /\ pc[p] = "sw_save"
    /\ kvAnnounced' = saveAnnouncedToKV(loc[p].announced)
    /\ loc' = [loc EXCEPT ![p] = [Put(loc[p]) EXCEPT !.announced = <<>>]]
    /\ pc' = [pc EXCEPT ![p] = "done"]
    /\ result' = [result EXCEPT ![p] = SweepResult]
    /\ UNCHANGED <<healthVars, kvBound, kvActivity, kvRate, now, ticks, args, before, rlLast>>

\* The handler of a request or trigger has ended and its worker slot is free again
Release(p) ==
    /\ pc[p] = "done"
    /\ pc' = [pc EXCEPT ![p] = "idle"]
    /\ args' = [args EXCEPT ![p] = Null]
    /\ result' = [result EXCEPT ![p] = Null]
    /\ loc' = [loc EXCEPT ![p] = NoLoc]
    /\ before' = Null
    /\ UNCHANGED <<healthVars, kvBound, kvAnnounced, kvActivity, kvRate, now, ticks, rlLast>>

\* A store operation outside any try/catch fails: the operation's promise rejects
\* (kv.get in loadRegistry, getAnnouncedFromKV and loadActivityFeed is inside a
\* try/catch). `at`: the store operation that failed; `caught`: handleJsonRpc's catch (lines 140-142) turns the rejection into
\* a -32000 error response; the SSE tool callbacks and scheduled have no catch.
UncaughtOps ==
    {"rate", "save", "rec_get", "rec_put", "act_put", "final",
     "hc_save", "sw_act_put", "sw_save"}

KvFails(p) ==
    /\ kvBound
    /\ pc[p] \in UncaughtOps
    /\ pc' = [pc EXCEPT ![p] = "done"]
    /\ result' = [result EXCEPT ![p] = [kind |-> "thrown", success |-> FALSE,
                                        at |-> pc[p],
                                        caught |-> args[p].via = "rpc"]]
    /\ UNCHANGED <<healthVars, kvBound, kvAnnounced, kvActivity, kvRate, now, ticks, args, loc, before, rlLast>>

\* Store reads whose failure the code catches: getAnnouncedFromKV (kv.ts 68-75) and
\* loadActivityFeed (kv.ts 36-44) return [] when kv.get rejects, and also when it resolves
\* to null
CaughtReads == {"get", "act_get", "sw_act_get"}

\* A caught read fails or yields nothing: the handler goes on with an empty list
KvReadFails(p) ==
    /\ kvBound
    /\ pc[p] \in CaughtReads
    /\ IF pc[p] = "get"
       THEN /\ loc' = [loc EXCEPT ![p] = [Got(loc[p]) EXCEPT !.announced =
                         Append(getAnnouncedFromKV(Absent), loc[p].newEntry)]]
            /\ pc' = [pc EXCEPT ![p] = "save"]
       ELSE /\ loc' = [loc EXCEPT ![p] = [Got(loc[p]) EXCEPT !.events = loadActivityFeed(Absent)]]
            /\ pc' = [pc EXCEPT ![p] = IF pc[p] = "act_get" THEN "act_put" ELSE "sw_act_put"]
    /\ UNCHANGED <<healthVars, kvBound, kvAnnounced, kvActivity, kvRate, now, ticks, args, result, before, rlLast>>

----------------------------------------------------------------------------
(* Specifications *)

\* Two concurrent announces of new daemons at one instant, interleaved at every
\* store operation and fetch
Racers == {1, 2}

BeginRace(p) == p \in Racers /\ Begin(p, RaceArgs)

Next ==
    \/ \E p \in Procs :
        \/ BeginRace(p)
        \/ RpcLoad(p)
        \/ AnnounceCheckRate(p)
        \/ AnnounceLoad(p)
        \/ AnnounceVerify(p)
        \/ AnnounceGet(p)
        \/ AnnounceSave(p)
        \/ AnnounceRecordGet(p)
        \/ AnnounceRecordPut(p)
        \/ AnnounceActivityGet(p)
        \/ AnnounceActivityPut(p)
        \/ AnnounceFinal(p)
        \/ Return(p)

Spec == Init /\ [][Next]_vars

\* One request at a time, with any of the arguments: a request begins only when
\* no other is in flight
BeginSeq(p) == Quiet /\ Begin(p, AnnounceArgs)

NextSeq ==
    \/ \E p \in Procs :
        \/ BeginSeq(p)
        \/ RpcLoad(p)
        \/ AnnounceCheckRate(p)
        \/ AnnounceLoad(p)
        \/ AnnounceVerify(p)
        \/ AnnounceGet(p)
        \/ AnnounceSave(p)
        \/ AnnounceRecordGet(p)
        \/ AnnounceRecordPut(p)
        \/ AnnounceActivityGet(p)
        \/ AnnounceActivityPut(p)
        \/ AnnounceFinal(p)
        \/ Return(p)
    \/ Tick
    \/ \E c \in Clients : KvExpire(c)

SpecSeq == Init /\ [][NextSeq]_vars

\* The rate limiter alone: checks and records of the clients, as time passes
NextRL ==
    \/ \E c \in Clients : RLCheck(c)
    \/ \E c \in Clients : RLRecord(c)
    \/ Tick
    \/ \E c \in Clients : KvExpire(c)

SpecRL == Init /\ [][NextRL]_vars

\* Announces, manual health checks and sweeps, one at a time
HealthAnnounceArgs == {a \in RaceArgs : a.url = UrlX}

SweepMinutes == {getDaemonCheckMinute(UrlSeed), getDaemonCheckMinute(PriorUrls[1]), 0}

BeginOne(p) ==
    /\ Quiet
    /\ \/ Begin(p, HealthAnnounceArgs)
       \/ BeginHealth(p)
       \/ BeginSweep(p, SweepMinutes)

\* A minute passes between two requests
HealthTick ==
    /\ Quiet
    /\ ticks < MaxTicks
    /\ now' = now + 60000
    /\ ticks' = ticks + 1
    /\ rlLast' = Null
    /\ UNCHANGED <<healthVars, kvBound, kvAnnounced, kvActivity, kvRate, pc, args, loc, result, before>>

NextHealth ==
    \/ \E p \in Procs :
        \/ BeginOne(p)
        \/ RpcLoad(p)
        \/ AnnounceCheckRate(p)
        \/ AnnounceLoad(p)
        \/ AnnounceVerify(p)
        \/ AnnounceGet(p)
        \/ AnnounceSave(p)
        \/ AnnounceRecordGet(p)
        \/ AnnounceRecordPut(p)
        \/ AnnounceActivityGet(p)
        \/ AnnounceActivityPut(p)
        \/ AnnounceFinal(p)
        \/ HcLoad(p)
        \/ ProbeWebDone(p)
        \/ ProbeMcpDone(p)
        \/ ProbeVerifyStart(p)
        \/ ProbeVerifyDone(p)
        \/ HcResolve(p)
        \/ HcGet(p)
        \/ HcSave(p)
        \/ SwLoad(p)
        \/ SwResolve(p)
        \/ SwGet(p)
        \/ SwApply(p)
        \/ SwActivityGet(p)
        \/ SwActivityPut(p)
        \/ SwSave(p)
        \/ Return(p)
    \/ HealthTick

SpecHealth == Init /\ [][NextHealth]_vars

\* An announce of a new daemon racing a manual health check or a sweep of a daemon
\* of the overlay, at one instant
RaceSweepMinutes == {getDaemonCheckMinute(PriorUrls[1])}

BeginHealthRace(p) ==
    /\ p \in Racers
    /\ \/ (\A q \in Procs : pc[q] = "idle") /\ Begin(p, HealthAnnounceArgs)
       \/ (\E q \in Procs : pc[q] # "idle") /\ BeginHealth(p)
       \/ (\E q \in Procs : pc[q] # "idle") /\ BeginSweep(p, RaceSweepMinutes)

NextHealthRace ==
    \E p \in Procs :
        \/ BeginHealthRace(p)
        \/ RpcLoad(p)
        \/ AnnounceCheckRate(p)
        \/ AnnounceLoad(p)
        \/ AnnounceVerify(p)
        \/ AnnounceGet(p)
        \/ AnnounceSave(p)
        \/ AnnounceRecordGet(p)
        \/ AnnounceRecordPut(p)
        \/ AnnounceActivityGet(p)
        \/ AnnounceActivityPut(p)
        \/ AnnounceFinal(p)
        \/ HcLoad(p)
        \/ ProbeWebDone(p)
        \/ ProbeMcpDone(p)
        \/ ProbeVerifyStart(p)
        \/ ProbeVerifyDone(p)
        \/ HcResolve(p)
        \/ HcGet(p)
        \/ HcSave(p)
        \/ SwLoad(p)
        \/ SwResolve(p)
        \/ SwGet(p)
        \/ SwApply(p)
        \/ SwActivityGet(p)
        \/ SwActivityPut(p)
        \/ SwSave(p)

SpecHealthRace == Init /\ [][NextHealthRace]_vars

\* The cron of one hour: trigger k fires in minute k, after the sweep of minute
\* k - 1 has ended
\* An overlay written before entries carried a status: its first entry has neither
\* status nor healthy nor last_checked
LegacyEntries ==
    << [id |-> deriveIdFromUrl(TwinUrls[1], "Ada"), url |-> TwinUrls[1], owner |-> "Ada",
        announced_at |-> 0, verified |-> FALSE, verified_at |-> 0],
       TwinEntries[2] >>

InitLegacy ==
    /\ kvBound = TRUE
    /\ kvAnnounced = [json |-> LegacyEntries]
    /\ kvActivity = [json |-> TwinEvents]
    /\ kvRate = [d \in Clients |-> Absent]
    /\ now = 0
    /\ ticks = 0
    /\ pc = [p \in Procs |-> "idle"]
    /\ args = [p \in Procs |-> Null]
    /\ loc = [p \in Procs |-> NoLoc]
    /\ result = [p \in Procs |-> Null]
    /\ before = Null
    /\ rlLast = Null
    /\ triggers = 0
    /\ swept = [u \in KnownUrls |-> 0]
    /\ appended = 0
    /\ daemonCache = Null

CronTrigger(p) ==
    /\ Quiet
    /\ triggers < HEALTH_CHECK_INTERVAL_MINUTES
    /\ now = triggers * 60000
    /\ BeginSweep(p, {triggers % HEALTH_CHECK_INTERVAL_MINUTES})

MinuteTick ==
    /\ Quiet
    /\ now < triggers * 60000
    /\ triggers < HEALTH_CHECK_INTERVAL_MINUTES
    /\ now' = now + 60000
    /\ UNCHANGED <<healthVars, kvBound, kvAnnounced, kvActivity, kvRate, ticks, pc, args, loc, result, before, rlLast>>

NextSweep ==
    \/ \E p \in Procs :
        \/ CronTrigger(p)
        \/ SwLoad(p)
        \/ ProbeWebDone(p)
        \/ ProbeMcpDone(p)
        \/ ProbeVerifyStart(p)
        \/ ProbeVerifyDone(p)
        \/ SwResolve(p)
        \/ SwGet(p)
        \/ SwApply(p)
        \/ SwActivityGet(p)
        \/ SwActivityPut(p)
        \/ SwSave(p)
        \/ Release(p)
    \/ MinuteTick

SpecSweep == (Init \/ InitTwins \/ InitLegacy) /\ [][NextSweep]_vars

\* Announces, manual health checks and sweeps, one at a time, with store operations
\* that can fail
FaultAnnounceArgs == {a \in AnnounceArgs : a.id = "" /\ a.url = UrlX /\ a.owner # ""}

FaultSweepMinutes == {getDaemonCheckMinute(TwinUrls[1])}

BeginFault(p) ==
    /\ Quiet
    /\ \/ Begin(p, FaultAnnounceArgs)
       \/ BeginHealth(p)
       \/ BeginSweep(p, FaultSweepMinutes)

NextFault ==
    \E p \in Procs :
        \/ BeginFault(p)
        \/ KvFails(p)
        \/ KvReadFails(p)
        \/ RpcLoad(p)
        \/ AnnounceCheckRate(p)
        \/ AnnounceLoad(p)
        \/ AnnounceVerify(p)
        \/ AnnounceGet(p)
        \/ AnnounceSave(p)
        \/ AnnounceRecordGet(p)
        \/ AnnounceRecordPut(p)
        \/ AnnounceActivityGet(p)
        \/ AnnounceActivityPut(p)
        \/ AnnounceFinal(p)
        \/ HcLoad(p)
        \/ ProbeWebDone(p)
        \/ ProbeMcpDone(p)
        \/ ProbeVerifyStart(p)
        \/ ProbeVerifyDone(p)
        \/ HcResolve(p)
        \/ HcGet(p)
        \/ HcSave(p)
        \/ SwLoad(p)
        \/ SwResolve(p)
        \/ SwGet(p)
        \/ SwApply(p)
        \/ SwActivityGet(p)
        \/ SwActivityPut(p)
        \/ SwSave(p)
        \/ Return(p)

SpecFault == (Init \/ InitTwins) /\ [][NextFault]_vars

\* The activity log alone: events appended one at a time, numbered in the order of
\* appending
LogEvent(k) ==
    [type |-> "daemon_announced", daemon_url |-> UrlX, daemon_owner |-> "Ada",
     timestamp |-> NoTime, details |-> [n |-> k]]

\* addActivityEvent(kv, event), called on its own
LogAppend ==
    /\ kvBound
    /\ appended < MaxAppends
    /\ kvActivity' = addActivityEvent(loadActivityFeed(kvActivity), LogEvent(appended + 1), now)
    /\ appended' = appended + 1
    /\ UNCHANGED <<triggers, swept, daemonCache, kvBound, kvAnnounced, kvRate, now, ticks, pc, args, loc, result, before, rlLast>>

\* Date advancing between appends (looked at after every LogTickEvery-th append)
LogTick ==
    /\ appended % LogTickEvery = 0
    /\ Tick

NextLog ==
    \/ LogAppend
    \/ LogTick

SpecLog == Init /\ [][NextLog]_vars

\* The store of a deployment in use: overlay entries with tags, a role and focus areas,
\* one of them found offline since, and an activity feed longer than a page
BusyEntries ==
    << NewEntry([url |-> TwinUrls[1], owner |-> "Ada"], deriveIdFromUrl(TwinUrls[1], "Ada"),
                [verified |-> FALSE], 0)
          @@ [tags |-> <<"Security", "ai">>, role |-> "Engineer", protocol |-> "unknown"],
       MergeUpdate(NewEntry([url |-> TwinUrls[2], owner |-> "Ada"],
                            deriveIdFromUrl(TwinUrls[2], "Ada"), [verified |-> FALSE], 0),
                   healthCheckDaemon(FALSE, FALSE, FALSE, 0))
          @@ [tags |-> <<>>, protocol |-> "unknown"],
       NewEntry([url |-> PriorUrls[1], owner |-> "Ada"], deriveIdFromUrl(PriorUrls[1], "Ada"),
                [verified |-> TRUE], 0)
          @@ [tags |-> <<"security">>, focus |-> <<"Privacy">>, protocol |-> "unknown"],
       NewEntry([url |-> PriorUrls[2], owner |-> "Ada"], deriveIdFromUrl(PriorUrls[2], "Ada"),
                [verified |-> FALSE], 0)
          @@ [tags |-> <<"insecurity">>, protocol |-> "unknown"] >>

BusyFeedLength == 25

BusyEvents ==
    [i \in 1..BusyFeedLength |->
        IF i % 2 = 1
        THEN [type |-> "health_changed", daemon_url |-> TwinUrls[2], daemon_owner |-> "Ada",
              timestamp |-> 0 - i, details |-> [old_status |-> "web", new_status |-> "offline"]]
        ELSE [AnnouncedEvent([url |-> TwinUrls[1], owner |-> "Ada"], [verified |-> FALSE])
                 EXCEPT !.timestamp = 0 - i]]

InitBusy ==
    /\ kvBound = TRUE
    /\ kvAnnounced = [json |-> BusyEntries]
    /\ kvActivity = [json |-> BusyEvents]
    /\ kvRate = [d \in Clients |-> Absent]
    /\ now = 0
    /\ ticks = 0
    /\ pc = [p \in Procs |-> "idle"]
    /\ args = [p \in Procs |-> Null]
    /\ loc = [p \in Procs |-> NoLoc]
    /\ result = [p \in Procs |-> Null]
    /\ before = Null
    /\ rlLast = Null
    /\ triggers = 0
    /\ swept = [u \in KnownUrls |-> 0]
    /\ appended = 0
    /\ daemonCache = Null

----------------------------------------------------------------------------
(* The daemon server's document cache *)

CACHE_TTL == 5 * 60 * 1000

\* daemon.md as lines: a [SECTION] header or any other line
Header(name) == [kind |-> "header", name |-> name]
Text(t) == [kind |-> "text", text |-> t]

Documents ==
    { << Header("ABOUT"), Text("a1"), Header("MISSION"), Text("m1") >>,
      << Text("preamble"), Header("ABOUT"), Text("a2"), Text("a3") >> }

RECURSIVE ParseLines(_)
\* the loop of parseDaemonMd over the lines so far: the sections closed, the section
\* open and its lines
ParseLines(lines) ==
    IF lines = <<>>
    THEN [sections |-> <<>>, currentSection |-> "", currentContent |-> <<>>]
    ELSE LET st == ParseLines(SubSeq(lines, 1, Len(lines) - 1))
             line == lines[Len(lines)]
         IN IF line.kind = "header"
            THEN [sections |-> IF st.currentSection # ""
                               THEN (st.currentSection :> st.currentContent) @@ st.sections
                               ELSE st.sections,
                  currentSection |-> line.name,
                  currentContent |-> <<>>]
            ELSE IF st.currentSection # ""
            THEN [st EXCEPT !.currentContent = Append(@, line.text)]
            ELSE st

\* parseDaemonMd(content): section name -> its lines
parseDaemonMd(content) ==
    LET st == ParseLines(content)
    IN IF st.currentSection # ""
       THEN (st.currentSection :> st.currentContent) @@ st.sections
       ELSE st.sections

\* Faulty variant: a cache of exactly the age CACHE_TTL still counts as fresh
cacheIsFreshInclusive(cache, t) ==
    IF cache = Null THEN FALSE ELSE t - cache.lastFetch <= CACHE_TTL

\* daemonCache && now - daemonCache.lastFetch < CACHE_TTL
cacheIsFresh(cache, t) ==
    IF cache = Null THEN FALSE ELSE t - cache.lastFetch < CACHE_TTL

\* What the fetch of daemon.md can do: throw or answer not-ok, or answer a document
DocumentFetchOutcomes == {[ok |-> FALSE, content |-> <<>>]} \cup {[ok |-> TRUE, content |-> d] : d \in Documents}

\* getDaemonSections up to its fetch: const now = Date.now(), the cache test, and
\* either the return of the cached sections or the start of the fetch
BeginSections(p) ==
    /\ pc[p] = "idle"
    /\ \A q \in Procs : q < p => pc[q] # "idle"
    /\ args' = [args EXCEPT ![p] = [via |-> "call", tool |-> "sections", id |-> "",
                                    url |-> "", owner |-> "", clientIp |-> ""]]
    /\ IF cacheIsFresh(daemonCache, now)
       THEN /\ pc' = [pc EXCEPT ![p] = "done"]
            /\ result' = [result EXCEPT ![p] = [kind |-> "sections", success |-> TRUE,
                                                sections |-> daemonCache.sections]]
            /\ loc' = [loc EXCEPT ![p] = [now |-> now] @@ NoLoc]
       ELSE /\ pc' = [pc EXCEPT ![p] = "ds_fetch"]
            /\ result' = result
            /\ loc' = [loc EXCEPT ![p] = [now |-> now] @@ Fetched(NoLoc)]
    /\ UNCHANGED <<healthVars, kvBound, kvAnnounced, kvActivity, kvRate, now, ticks, before, rlLast>>

\* Faulty variant: a failed fetch is remembered too (the cache's fetch time is stamped)
SectionsFetchedStampsFailure(p) ==
    /\ pc[p] = "ds_fetch"
    /\ \E resp \in DocumentFetchOutcomes :
        /\ loc' = [loc EXCEPT ![p].resp = resp]
        /\ IF resp.ok
           THEN LET sections == parseDaemonMd(resp.content)
                IN /\ daemonCache' = [sections |-> sections, lastFetch |-> loc[p].now]
                   /\ result' = [result EXCEPT ![p] = [kind |-> "sections", success |-> TRUE,
                                                       sections |-> sections]]
           ELSE /\ daemonCache' = IF daemonCache # Null
                                  THEN [daemonCache EXCEPT !.lastFetch = loc[p].now]
                                  ELSE daemonCache
                /\ result' = [result EXCEPT ![p] =
                                 IF daemonCache # Null
                                 THEN [kind |-> "sections", success |-> TRUE,
                                       sections |-> daemonCache.sections]
                                 ELSE [kind |-> "thrown", success |-> FALSE]]
    /\ pc' = [pc EXCEPT ![p] = "done"]
    /\ UNCHANGED <<triggers, swept, appended, kvBound, kvAnnounced, kvActivity, kvRate, now, ticks,
                   args, before, rlLast>>

\* the fetch has ended: the cache is replaced on success; on failure the cached sections
\* are returned if there are any, else the error is thrown
SectionsFetched(p) ==
    /\ pc[p] = "ds_fetch"
    /\ \E resp \in DocumentFetchOutcomes :
        /\ loc' = [loc EXCEPT ![p].resp = resp]
        /\ IF resp.ok
           THEN LET sections == parseDaemonMd(resp.content)
                IN /\ daemonCache' = [sections |-> sections, lastFetch |-> loc[p].now]
                   /\ result' = [result EXCEPT ![p] = [kind |-> "sections", success |-> TRUE,
                                                       sections |-> sections]]
           ELSE /\ daemonCache' = daemonCache
                /\ result' = [result EXCEPT ![p] =
                                 IF daemonCache # Null
                                 THEN [kind |-> "sections", success |-> TRUE,
                                       sections |-> daemonCache.sections]
                                 ELSE [kind |-> "thrown", success |-> FALSE]]
    /\ pc' = [pc EXCEPT ![p] = "done"]
    /\ UNCHANGED <<triggers, swept, appended, kvBound, kvAnnounced, kvActivity, kvRate, now, ticks,
                   args, before, rlLast>>

\* Bound on the clock advances of SpecCache
MaxCacheTicks == 3

\* The clock advances (observed once the callers have taken their results): by a
\* millisecond at any point, by a millisecond less than the TTL only between calls (a
\* fetch lasts seconds)
CacheTick ==
    /\ ticks < MaxCacheTicks
    /\ \A p \in Procs : pc[p] # "done"
    /\ \E d \in {1, CACHE_TTL - 1} :
        /\ d = 1 \/ Quiet
        /\ now' = now + d
    /\ ticks' = ticks + 1
    /\ UNCHANGED <<healthVars, kvBound, kvAnnounced, kvActivity, kvRate, pc, args, loc, result,
                   before, rlLast>>

NextCache ==
    \/ \E p \in Procs : BeginSections(p)
    \/ \E p \in Procs : SectionsFetched(p)
    \/ \E p \in Procs : Release(p)
    \/ CacheTick

SpecCache == InitTwins /\ [][NextCache]_vars

----------------------------------------------------------------------------
(* The functions of the registry called on their own *)

DeriveUrls == {UrlX, UrlXApi, UrlXDeep, UrlXUpper, UrlBad}
DeriveOwners == {"Ada", "", OwnerSymbols, OwnerLong}

\* deriveIdFromUrl(url, owner)
CallDerive ==
    /\ pc[1] = "idle"
    /\ \E u \in DeriveUrls, o \in DeriveOwners :
        /\ args' = [args EXCEPT ![1] = [via |-> "call", tool |-> "derive", id |-> "",
                                        url |-> u, owner |-> o, clientIp |-> ""]]
        /\ result' = [result EXCEPT ![1] = [kind |-> "id", success |-> TRUE,
                                            id |-> deriveIdFromUrl(u, o)]]
    /\ pc' = [pc EXCEPT ![1] = "done"]
    /\ UNCHANGED <<healthVars, kvBound, kvAnnounced, kvActivity, kvRate, now, ticks, loc, before, rlLast>>

\* loadRegistry(kv), the get of the overlay rejecting, or resolving to the stored
\* value or to a value that is not an array
CallLoad ==
    /\ pc[1] = "idle"
    /\ \E got \in KvGetOutcomes(kvAnnounced) \cup {[threw |-> FALSE, value |-> Malformed]} :
        /\ args' = [args EXCEPT ![1] = [via |-> "call", tool |-> "load", id |-> "",
                                        url |-> "", owner |-> "", clientIp |-> "",
                                        got |-> got]]
        /\ result' = [result EXCEPT ![1] =
                         [kind |-> IF loadRegistryFrom(kvBound, got).threw
                                   THEN "thrown" ELSE "registry",
                          success |-> ~loadRegistryFrom(kvBound, got).threw,
                          entries |-> loadRegistryFrom(kvBound, got).entries]]
    /\ pc' = [pc EXCEPT ![1] = "done"]
    /\ loc' = [loc EXCEPT ![1] = Loaded(loc[1])]
    /\ UNCHANGED <<healthVars, kvBound, kvAnnounced, kvActivity, kvRate, now, ticks, before, rlLast>>

ActivityLimits == {0 - 1, 0, 1, 3, 20, 25}
ActivityTypes == {"", "daemon_announced", "health_changed", "daemon_verified"}

\* registryActivity(kv, limit, type)
CallActivity ==
    /\ pc[1] = "idle"
    /\ \E given \in BOOLEAN, type \in ActivityTypes :
        \E limit \in (IF given THEN ActivityLimits ELSE {0}) :
            /\ args' = [args EXCEPT ![1] = [via |-> "call", tool |-> "activity", id |-> "",
                                            url |-> "", owner |-> "", clientIp |-> "",
                                            given |-> given, limit |-> limit, type |-> type]]
            /\ result' = [result EXCEPT ![1] =
                             [kind |-> "activity", success |-> TRUE]
                             @@ registryActivity(kvBound, kvActivity, given, limit, type)]
    /\ pc' = [pc EXCEPT ![1] = "done"]
    /\ loc' = [loc EXCEPT ![1] = IF kvBound THEN Got(loc[1]) ELSE loc[1]]
    /\ UNCHANGED <<healthVars, kvBound, kvAnnounced, kvActivity, kvRate, now, ticks, before, rlLast>>

SearchQueries == {"", "ada", "SECUR", "engine", "priv", "EXAMPLE.net", "p1", "nothing"}
SearchTags == {"", "security", "SECURITY", "ai", "nothing"}
SearchStatuses == {"", "mcp", "web", "offline"}

\* registrySearch(kv, query, tag, status)
CallSearch ==
    /\ pc[1] = "idle"
    /\ \E query \in SearchQueries, tag \in SearchTags, status \in SearchStatuses :
        /\ args' = [args EXCEPT ![1] = [via |-> "call", tool |-> "search", id |-> "",
                                        url |-> "", owner |-> "", clientIp |-> "",
                                        query |-> query, tag |-> tag, status |-> status]]
        /\ result' = [result EXCEPT ![1] =
                         [kind |-> "entries", success |-> TRUE,
                          entries |-> registrySearch(kvBound, kvAnnounced, query, tag, status)]]
    /\ pc' = [pc EXCEPT ![1] = "done"]
    /\ loc' = [loc EXCEPT ![1] = Loaded(loc[1])]
    /\ UNCHANGED <<healthVars, kvBound, kvAnnounced, kvActivity, kvRate, now, ticks, before, rlLast>>

CheckMinuteStrings == KnownUrls \cup {UrlMinInt, UrlBad, ""}

\* getDaemonCheckMinute(url)
CallCheckMinute ==
    /\ pc[1] = "idle"
    /\ \E url \in CheckMinuteStrings :
        /\ args' = [args EXCEPT ![1] = [via |-> "call", tool |-> "check_minute", id |-> "",
                                        url |-> url, owner |-> "", clientIp |-> ""]]
        /\ result' = [result EXCEPT ![1] = [kind |-> "minute", success |-> TRUE,
                                            minute |-> getDaemonCheckMinute(url)]]
    /\ pc' = [pc EXCEPT ![1] = "done"]
    /\ UNCHANGED <<healthVars, kvBound, kvAnnounced, kvActivity, kvRate, now, ticks, loc, before, rlLast>>

NextCalls ==
    \/ CallDerive
    \/ CallCheckMinute
    \/ CallSearch
    \/ CallActivity
    \/ CallLoad
    \/ Release(1)

SpecCalls == (Init \/ InitTwins \/ InitBusy) /\ [][NextCalls]_vars

----------------------------------------------------------------------------
(* Properties *)

\* The persisted overlay, and the merged registry: the seed entries followed by it
Overlay(stored) == IF stored = Absent THEN <<>> ELSE stored.json

Merged(stored) == SeedEntries \o Overlay(stored)

Holds(entries, e) == \E i \in DOMAIN entries : entries[i] = e

\* The id an announce registers: the one provided, else the one derived
RequestedId(a) == IF a.id # "" THEN Chars(a.id) ELSE deriveIdFromUrl(a.url, a.owner)

\* Request p has returned an announce result
Finished(p) == pc[p] = "done" /\ result[p].kind = "result"

\* C1: in every reachable state, concurrent announces included, the merged registry
\* holds at most one entry with any given url and at most one with any given id.
C1_UniqueUrlAndId ==
    LET reg == Merged(kvAnnounced)
    IN \A i, j \in DOMAIN reg :
          i # j => reg[i].url # reg[j].url /\ reg[i].id # reg[j].id

\* C2 as stated: an announce, made when no other runs, whose url or whose provided or
\* derived id is that of an existing entry returns success=false with the existing
\* entry and leaves the overlay and the activity log as they were.
C2_DuplicateReturnsExisting ==
    \A p \in Procs :
        Finished(p) =>
            LET a == args[p]
                reg == Merged(before.store.announced)
                dup(e) == e.url = a.url \/ e.id = RequestedId(a)
            IN (\E i \in DOMAIN reg : dup(reg[i])) =>
                  /\ ~result[p].success
                  /\ \E i \in DOMAIN reg : reg[i] = result[p].entry /\ dup(reg[i])
                  /\ kvAnnounced = before.store.announced
                  /\ kvActivity = before.store.activity

\* C2 as amended: the same of an announce that the rate limiter has not refused; the
\* entry returned is one with the url if there is one.
C2_DuplicateReturnsExistingUnlessLimited ==
    \A p \in Procs :
        (Finished(p) /\ result[p].message # "Rate limit exceeded") =>
            LET a == args[p]
                reg == Merged(before.store.announced)
                dupUrl(e) == e.url = a.url
                dup(e) == dupUrl(e) \/ e.id = RequestedId(a)
            IN (\E i \in DOMAIN reg : dup(reg[i])) =>
                  /\ ~result[p].success
                  /\ \E i \in DOMAIN reg : reg[i] = result[p].entry /\ dup(reg[i])
                  /\ (\E i \in DOMAIN reg : dupUrl(reg[i])) => dupUrl(result[p].entry)
                  /\ kvAnnounced = before.store.announced
                  /\ kvActivity = before.store.activity

\* C2 witness: the url announced a second time is refused with the stored entry
C2_SecondAnnounceRefused ==
    \E p \in Procs :
        /\ Finished(p)
        /\ result[p].message = "Daemon already registered (URL exists)"
        /\ args[p].url = UrlX
        /\ Holds(Overlay(kvAnnounced), result[p].entry)

\* C3: with a store bound, when two announces of distinct urls have both returned
\* success, the overlay holds the entry of at least one of them (it need not hold
\* both: neither announce takes a lock between its get and its put).
C3_OneOfTwoPersists ==
    \A p, q \in Procs :
        (/\ kvBound /\ p # q /\ Finished(p) /\ Finished(q)
         /\ result[p].success /\ result[q].success
         /\ args[p].url # args[q].url)
        => \/ Holds(Overlay(kvAnnounced), result[p].entry)
           \/ Holds(Overlay(kvAnnounced), result[q].entry)

\* C3 witness: both have returned success and the overlay has no entry for one url
C3_LostUpdate ==
    \E p, q \in Procs :
        /\ p # q /\ Finished(p) /\ Finished(q)
        /\ result[p].success /\ result[q].success
        /\ args[p].url # args[q].url
        /\ Holds(Overlay(kvAnnounced), result[q].entry)
        /\ \A i \in DOMAIN Overlay(kvAnnounced) : Overlay(kvAnnounced)[i].url # args[p].url

\* C4: in every execution, concurrent announces of one client included, the stored
\* count of a client's window never exceeds 5.
C4_CountWithinCap ==
    \A c \in Clients :
        kvRate[c] # Absent => kvRate[c].count <= RATE_LIMIT_MAX_ANNOUNCES

\* C5: after exactly 5 records in one window, every check made while the window has
\* not expired returns allowed=false, remaining=0 and 0 < resetIn <= the window length.
C5_DeniedWithPositiveReset ==
    (/\ rlLast # Null /\ rlLast.op = "check"
     /\ rlLast.store[rlLast.ip] # Absent
     /\ rlLast.store[rlLast.ip].count = RATE_LIMIT_MAX_ANNOUNCES
     /\ rlLast.at - rlLast.store[rlLast.ip].windowStart <= RATE_LIMIT_WINDOW_MS)
    => /\ ~rlLast.out.allowed
       /\ rlLast.out.remaining = 0
       /\ 0 < rlLast.out.resetIn
       /\ rlLast.out.resetIn <= RATE_LIMIT_WINDOW_MS

\* C6: once more than the window length has passed since windowStart, a check returns
\* allowed=true and remaining=4 whatever the stored count, and a record stores count=1
\* with windowStart the current time; a record in an active window adds one to the
\* count and keeps windowStart.
C6_WindowResetAndIncrement ==
    (rlLast # Null /\ rlLast.store[rlLast.ip] # Absent) =>
        LET old == rlLast.store[rlLast.ip]
            new == kvRate[rlLast.ip]
            elapsed == rlLast.at - old.windowStart > RATE_LIMIT_WINDOW_MS
        IN /\ (rlLast.op = "check" /\ elapsed) =>
                 rlLast.out.allowed /\ rlLast.out.remaining = 4
           /\ (rlLast.op = "record" /\ elapsed) =>
                 new.count = 1 /\ new.windowStart = rlLast.at
           /\ (rlLast.op = "record" /\ ~elapsed) =>
                 new.count = old.count + 1 /\ new.windowStart = old.windowStart

\* C6 witness: a record made after the window of a client at the cap has elapsed
C6_RecordAfterWindow ==
    /\ rlLast # Null /\ rlLast.op = "record"
    /\ rlLast.store[rlLast.ip] # Absent
    /\ rlLast.store[rlLast.ip].count >= RATE_LIMIT_MAX_ANNOUNCES
    /\ rlLast.at - rlLast.store[rlLast.ip].windowStart > RATE_LIMIT_WINDOW_MS

\* C7: a check leaves the key-value store as it found it, whatever the client's
\* record is.
C7_CheckDoesNotMutate ==
    (rlLast # Null /\ rlLast.op = "check") => kvRate = rlLast.store

\* C7 witness: a check of a client at the cap, in its window
C7_CheckAtCap ==
    /\ rlLast # Null /\ rlLast.op = "check"
    /\ rlLast.store[rlLast.ip] # Absent
    /\ rlLast.store[rlLast.ip].count >= RATE_LIMIT_MAX_ANNOUNCES
    /\ ~rlLast.out.allowed

\* C8: an announce that ends in a failure leaves the overlay, the rate-limit records
\* and the activity log as they were, and has not called the verifier.
C8_FailureWritesNothing ==
    \A p \in Procs :
        (Finished(p) /\ ~result[p].success) =>
            /\ Store = before.store
            /\ loc[p].resp = Null
            /\ result[p].message \in {"Rate limit exceeded",
                                      "Daemon already registered (URL exists)",
                                      "Daemon ID already registered",
                                      "Invalid URL format"}

\* C8 witness: a rate-limited announce has returned
C8_RateLimitedReturned ==
    \E p \in Procs :
        Finished(p) /\ ~result[p].success /\ result[p].message = "Rate limit exceeded"

\* C9: every announce that appends an entry to the overlay records a rate-limit hit
\* and appends exactly one daemon_announced event, by whichever transport it came.
C9_PersistRecordsHitAndEvent ==
    \A p \in Procs :
        (Finished(p) /\ result[p].success /\ kvAnnounced # before.store.announced) =>
            /\ \E c \in Clients : kvRate[c] # before.store.rate[c]
            /\ Len(Overlay(kvActivity)) = Len(Overlay(before.store.activity)) + 1
            /\ Overlay(kvActivity)[1].type = "daemon_announced"

\* C10: a successfully announced entry has status mcp if the verifier succeeded and
\* web otherwise, healthy = true, verified equal to the verifier's outcome, and its
\* three timestamps equal to the time of the announce.
C10_NewEntryFields ==
    \A p \in Procs :
        (Finished(p) /\ result[p].success) =>
            LET e == result[p].entry
                r == loc[p].resp
                ok == /\ r.kind = "response" /\ r.ok /\ r.bracket
                      /\ r.length >= VERIFY_MIN_LENGTH
            IN /\ e.verified = ok
               /\ e.status = (IF ok THEN "mcp" ELSE "web")
               /\ e.healthy = TRUE
               /\ e.announced_at = e.verified_at
               /\ e.announced_at = e.last_checked
               /\ before.at <= e.announced_at /\ e.announced_at <= now
               /\ kvBound => Overlay(kvAnnounced)[Len(Overlay(kvAnnounced))] = e

\* C10 witness: an announce whose verification failed has been persisted
C10_UnverifiedAnnounced ==
    \E p \in Procs :
        /\ Finished(p) /\ result[p].success /\ kvBound
        /\ ~result[p].entry.verified
        /\ result[p].entry.announced_at > 0

\* C11: an announce rejected for a malformed url or for a missing url or owner has
\* made no fetch, no store get and no store put when the rejection is returned.
C11_RejectedBeforeAnyIO ==
    \A p \in Procs :
        (/\ pc[p] = "done"
         /\ \/ result[p].kind = "error"
            \/ result[p].message = "Invalid URL format")
        => loc[p].io = [gets |-> 0, puts |-> 0, fetches |-> 0]

----------------------------------------------------------------------------
(* Health checks *)

\* The operation a request or trigger runs
ToolOf(a) ==
    IF a.via = "cron" THEN "sweep"
    ELSE IF "tool" \in DOMAIN a THEN a.tool ELSE "announce"

\* The health part of an entry, and the part an announce gives it
HealthFields(e) == [last_checked |-> e.last_checked, status |-> e.status, healthy |-> e.healthy]

AnnounceFields(e) ==
    [id |-> e.id, url |-> e.url, owner |-> e.owner, announced_at |-> e.announced_at,
     verified |-> e.verified, verified_at |-> e.verified_at]

\* The health results of job q: the url checked and the update computed for it
HealthUpdates(q) ==
    IF ToolOf(args[q]) = "health"
    THEN IF loc[q].hc.update = Null THEN {}
         ELSE {[url |-> loc[q].hc.entry.url, update |-> loc[q].hc.update]}
    ELSE {[url |-> u.entry.url, update |-> u.update] : u \in Range(loc[q].hc.updates)}

\* Job q, a manual check or a sweep, has ended after saving the overlay
WroteBack(q) ==
    /\ pc[q] = "done"
    /\ result[q].kind \in {"health", "sweep"}
    /\ IF result[q].kind = "health" THEN loc[q].io.puts > 0 ELSE loc[q].hc.updated

\* The overlay holds health result x
Reflected(stored, x) ==
    \E i \in DOMAIN Overlay(stored) :
        /\ Overlay(stored)[i].url = x.url
        /\ HealthFields(Overlay(stored)[i]) = HealthFields(x.update)

\* C12: when an announce and a health write-back (manual check or sweep) run
\* concurrently, one of the two updates can be lost, and at most one is: after both have
\* written, the overlay holds the announced entry or the computed health results.
C12_OneOfAnnounceAndHealthSurvives ==
    \A p, q \in Procs :
        (Finished(p) /\ result[p].success
         /\ WroteBack(q))
        => \/ Holds(Overlay(kvAnnounced), result[p].entry)
           \/ \A x \in HealthUpdates(q) :
                 (\E i \in DOMAIN Overlay(kvAnnounced) : Overlay(kvAnnounced)[i].url = x.url)
                 => Reflected(kvAnnounced, x)

\* An announce reported success and a health job wrote back, and the overlay lacks the
\* announced entry
C12_AnnounceLostToHealthWriteBack ==
    \E p, q \in Procs :
        /\ Finished(p) /\ result[p].success
        /\ WroteBack(q)
        /\ \A i \in DOMAIN Overlay(kvAnnounced) : Overlay(kvAnnounced)[i].url # result[p].entry.url

\* The other loss: the announce persisted and a computed health result is not in the
\* overlay
C12_HealthResultLostToAnnounce ==
    \E p, q \in Procs :
        /\ Finished(p) /\ result[p].success
        /\ WroteBack(q)
        /\ Holds(Overlay(kvAnnounced), result[p].entry)
        /\ \E x \in HealthUpdates(q) : ~Reflected(kvAnnounced, x)

\* C13: seed entries are never changed: every load returns each seed entry with its
\* seed values, the overlay never holds an entry with a seed entry's url, and a manual
\* check of a seed entry writes nothing to the store.
C13_SeedEntriesImmutable ==
    /\ \A i \in DOMAIN SeedEntries :
          /\ loadRegistry(kvBound, kvAnnounced)[i] = SeedEntries[i]
          /\ FindByUrl(loadRegistry(kvBound, kvAnnounced), SeedEntries[i].url) = SeedEntries[i]
          /\ \A j \in DOMAIN Overlay(kvAnnounced) : Overlay(kvAnnounced)[j].url # SeedEntries[i].url
    /\ \A p \in Procs :
          (pc[p] = "done" /\ result[p].kind = "health"
           /\ \E i \in DOMAIN SeedEntries : SeedEntries[i].url = args[p].url)
          => loc[p].io.puts = 0

\* A manual check of a seed entry has returned a status that is not the seed's
C13_SeedCheckedWithOtherStatus ==
    \E p \in Procs :
        /\ pc[p] = "done" /\ result[p].kind = "health"
        /\ kvBound
        /\ \E i \in DOMAIN SeedEntries :
              /\ SeedEntries[i].url = args[p].url
              /\ SeedEntries[i].status # result[p].health_update.status

\* C14: through any sequence of operations every overlay entry keeps the id, url,
\* owner, announced_at, verified and verified_at its announce gave it, and its
\* last_checked, status and healthy change only in the save of a health check that
\* checked its url.
C14_WriteBackChangesHealthFieldsOnly ==
    [][\A i \in DOMAIN Overlay(kvAnnounced) :
          /\ i \in DOMAIN Overlay(kvAnnounced')
          /\ AnnounceFields(Overlay(kvAnnounced')[i]) = AnnounceFields(Overlay(kvAnnounced)[i])
          /\ Overlay(kvAnnounced')[i] # Overlay(kvAnnounced)[i]
             => \E p \in Procs :
                   /\ pc[p] \in {"hc_save", "sw_save"}
                   /\ pc'[p] = "done"
                   /\ \E x \in HealthUpdates(p) :
                         /\ x.url = Overlay(kvAnnounced)[i].url
                         /\ HealthFields(Overlay(kvAnnounced')[i]) = HealthFields(x.update)]_vars

\* A health job has written back a status that differs from the one the entry had
C14_StatusWrittenBack ==
    \E q \in Procs :
        /\ WroteBack(q)
        /\ before # Null
        /\ \E x \in HealthUpdates(q) :
              /\ Reflected(kvAnnounced, x)
              /\ ~Reflected(before.store.announced, x)
              /\ \E i \in DOMAIN Overlay(before.store.announced) :
                    /\ Overlay(before.store.announced)[i].url = x.url
                    /\ Overlay(before.store.announced)[i].status # x.update.status

\* The check minute of each known url: Math.abs of the 32-bit hash, modulo 60, worked
\* out by hand
ExpectedCheckMinute ==
    (UrlSeed :> 59) @@ (PriorUrls[1] :> 24) @@ (PriorUrls[2] :> 29) @@
    (PriorUrls[3] :> 42) @@ (PriorUrls[4] :> 37) @@
    (TwinUrls[1] :> 17) @@ (TwinUrls[2] :> 17) @@
    (UrlX :> 7) @@ (UrlXHttp :> 18) @@ (UrlY :> 11)

\* The sweep of job p has finished its probes
SweepChecked(p) ==
    /\ pc[p] \in {"sw_get", "sw_apply", "sw_act_get", "sw_act_put", "sw_save", "done"}
    /\ args[p].via = "cron"

\* C15: a sweep checks an entry exactly when getDaemonCheckMinute(entry.url) is the
\* trigger's minute, and over 60 consecutive per-minute triggers every entry of the
\* registry is checked exactly once.
C15_EveryEntryOncePerHour ==
    /\ \A p \in Procs :
          SweepChecked(p)
          => {u.entry.url : u \in Range(loc[p].hc.updates)}
             = {e.url : e \in {x \in Range(Merged(kvAnnounced)) :
                                  ExpectedCheckMinute[x.url] = args[p].minute}}
    /\ \A e \in Range(Merged(kvAnnounced)) :
          /\ swept[e.url] <= 1
          /\ getDaemonCheckMinute(e.url) = ExpectedCheckMinute[e.url]
          /\ (triggers = HEALTH_CHECK_INTERVAL_MINUTES /\ Quiet) => swept[e.url] = 1
          /\ (swept[e.url] = 1 /\ Quiet) => triggers > ExpectedCheckMinute[e.url]
          /\ (swept[e.url] = 0 /\ Quiet) => triggers <= ExpectedCheckMinute[e.url]

\* Sixty triggers have run and the two overlay entries that share a minute (the url of
\* the second hashes to a negative number) have each been checked once
C15_HourSweptOnce ==
    /\ triggers = HEALTH_CHECK_INTERVAL_MINUTES
    /\ Quiet
    /\ \A i \in DOMAIN TwinUrls :
          /\ \E e \in Range(Overlay(kvAnnounced)) : e.url = TwinUrls[i]
          /\ swept[TwinUrls[i]] = 1

\* What the three probe results of one check resolve to
ResolvesAsSpecified(web, mcp, verified, update) ==
    /\ (mcp \/ verified) => (update.status = "mcp" /\ update.healthy)
    /\ (~mcp /\ ~verified /\ web) => (update.status = "web" /\ update.healthy)
    /\ (~mcp /\ ~verified /\ ~web) => (update.status = "offline" /\ ~update.healthy)

\* C16: healthCheckDaemon resolves mcp/healthy when the tools/list probe or the
\* verifier succeeded, else web/healthy when the plain GET succeeded, else
\* offline/unhealthy.
C16_StatusFromProbes ==
    \A p \in Procs :
        /\ (pc[p] \in {"hc_get", "hc_save", "done"} /\ ToolOf(args[p]) = "health"
            /\ loc[p].hc # Null /\ loc[p].hc.update # Null)
           => ResolvesAsSpecified(loc[p].hc.web, loc[p].hc.mcp, loc[p].hc.verified,
                                  loc[p].hc.update)
        /\ (pc[p] = "sw_probe" \/ SweepChecked(p))
           => \A u \in Range(loc[p].hc.updates) :
                 ResolvesAsSpecified(u.web, u.mcp, u.verified, u.update)

\* A manual check has resolved mcp on the verifier alone, the plain GET having
\* succeeded and the tools/list probe not
C16_McpByVerifierOnly ==
    \E p \in Procs :
        /\ pc[p] = "done" /\ result[p].kind = "health" /\ result[p].success
        /\ loc[p].hc.web /\ ~loc[p].hc.mcp /\ loc[p].hc.verified
        /\ result[p].health_update.status = "mcp"

\* The probes of the check job p is making, if it is making one
Probing(p) == pc[p] \in {"hc_probe", "sw_probe"}

\* C17: the failure of one entry in a sweep, of its probes or of the store write that
\* records its status change, does not abort the sweep: every due entry is still
\* checked and every due overlay entry's result is written.
C17_SweepSurvivesEntryFailure ==
    \A p \in Procs :
        (/\ pc[p] = "done"
         /\ args[p].via = "cron"
         /\ result[p].kind = "thrown" => result[p].at = "sw_act_put")
        => /\ {u.entry.url : u \in Range(loc[p].hc.updates)}
              = {e.url : e \in {x \in Range(Merged(kvAnnounced)) :
                                   ExpectedCheckMinute[x.url] = args[p].minute}}
           /\ \A x \in HealthUpdates(p) :
                 (\E e \in Range(Overlay(kvAnnounced)) : e.url = x.url)
                 => Reflected(kvAnnounced, x)

C18_WebDoneMcpInFlight ==
    \E p \in Procs :
        /\ Probing(p)
        /\ loc[p].hc.probes = [web |-> "done", mcp |-> "started", verify |-> "idle"]

\* The number of events stored
LogLength == Len(loadActivityFeed(kvActivity))

\* C19: the activity log never holds more than 100 events and holds them newest
\* first: after k appends it holds exactly the min(k, 100) most recent events, in
\* reverse order of appending.
C19_LogHoldsNewestHundred ==
    (kvBound /\ kvActivity # Absent)
    => LET log == loadActivityFeed(kvActivity)
           kept == IF appended < ACTIVITY_FEED_MAX_EVENTS THEN appended
                   ELSE ACTIVITY_FEED_MAX_EVENTS
       IN /\ Len(log) <= ACTIVITY_FEED_MAX_EVENTS
          /\ Len(log) >= kept
          /\ \A i \in 1..kept : log[i].details = [n |-> appended + 1 - i]
          /\ \A i \in 1..(kept - 1) : log[i].timestamp >= log[i + 1].timestamp
          /\ \E n \in {0, RATE_LIMIT_MAX_ANNOUNCES - 1} :
                /\ Len(log) - kept <= n
                /\ \A i \in 1..(Len(log) - kept) : log[kept + i] = PriorEvents(n)[i]
          /\ (Len(log) < ACTIVITY_FEED_MAX_EVENTS)
             => \E n \in {0, RATE_LIMIT_MAX_ANNOUNCES - 1} : Len(log) = appended + n

\* 150 appends have been made and the log holds the last 100 of them
C19_HundredOfHundredFifty ==
    /\ appended = 150
    /\ LogLength = ACTIVITY_FEED_MAX_EVENTS
    /\ loadActivityFeed(kvActivity)[1].details = [n |-> 150]
    /\ loadActivityFeed(kvActivity)[ACTIVITY_FEED_MAX_EVENTS].details = [n |-> 51]

\* C20: no externally-facing operation ends in a fault that its caller has to catch:
\* each call that has ended has returned a result value.
C20_EveryCallReturnsAResult ==
    \A p \in Procs :
        (pc[p] = "done" /\ args[p].via # "cron") => result[p].kind # "thrown"

\* The same for the calls the JSON-RPC handler's catch does not cover
C20_UncaughtBySseCallback ==
    \A p \in Procs :
        (pc[p] = "done" /\ args[p].via = "sse") => result[p].kind # "thrown"

----------------------------------------------------------------------------
(* Identity derivation *)

\* A deriveIdFromUrl call has returned
Derived == pc[1] = "done" /\ result[1].kind = "id"

\* The parts of the url and the owner that the id is made of
HostLabelsReversed(url) == Reverse(Split(ParseURL(url).hostname, "."))

FirstPathSegment(url) == Split(StripSlashes(ParseURL(url).pathname), "/")[1]

SanitizedOwner(owner) ==
    Substring0(KeepLowerAlnum(ToLowerCase(Chars(owner))), ID_OWNER_MAX)

\* The ids of the calls made, worked out by hand
IdByHand(url, owner) ==
    LET byOwner == CASE owner = "Ada" -> "com.example.x.ada"
                     [] owner = OwnerLong -> "com.example.x.drgracebhoppermurray"
                     [] OTHER -> ""
        byPath == CASE url = UrlX -> "com.example.x.daemon"
                    [] url = UrlXApi -> "com.example.x.api"
                    [] url = UrlXDeep -> "com.example.x.api"
                    [] url = UrlXUpper -> "com.example.x.Me"
    IN IF byOwner # "" THEN byOwner ELSE byPath

----------------------------------------------------------------------------
(* Status and healthy *)

\* The status/healthy combinations of the README's Status Values table
StatusValues ==
    { [status |-> "mcp", healthy |-> TRUE], [status |-> "web", healthy |-> TRUE],
      [status |-> "offline", healthy |-> FALSE] }

\* C22: every entry written by announce or updated by a health check is healthy
\* exactly when its status is mcp or web and unhealthy exactly when it is offline; no
\* overlay entry has another combination, and no entry returned by these operations.
C22_HealthyIffReachable ==
    /\ \A e \in Range(Overlay(kvAnnounced)) :
          [status |-> e.status, healthy |-> e.healthy] \in StatusValues
    /\ \A p \in Procs :
          (pc[p] = "done" /\ result[p].kind \in {"result", "health"} /\ result[p].success)
          => [status |-> result[p].entry.status, healthy |-> result[p].entry.healthy]
             \in StatusValues

\* An entry that was announced (healthy) has since been found offline by a health
\* check, and the overlay holds it as offline and unhealthy
C22_AnnouncedThenOffline ==
    /\ \E q \in Procs : WroteBack(q)
    /\ \E e \in Range(Overlay(kvAnnounced)) :
          e.url = UrlX /\ e.status = "offline" /\ ~e.healthy

----------------------------------------------------------------------------
(* Loading the registry *)

\* A loadRegistry call has ended
LoadEnded == pc[1] = "done" /\ args[1].tool = "load"

\* The overlay a load can see: the store is bound and the get resolved to an array
VisibleOverlay ==
    IF kvBound /\ ~args[1].got.threw /\ args[1].got.value # Absent
       /\ args[1].got.value # Malformed
    THEN args[1].got.value.json
    ELSE <<>>

\* C23: load returns the seed entries followed by the overlay entries in stored
\* order; with no store bound, a failing get or a stored value that is not an array it
\* returns the seed entries only, and it does not fail.
C23_LoadSeedThenOverlay ==
    LoadEnded
    => /\ result[1].kind = "registry"
       /\ Len(result[1].entries) = Len(SeedEntries) + Len(VisibleOverlay)
       /\ \A i \in DOMAIN SeedEntries : result[1].entries[i] = SeedEntries[i]
       /\ \A j \in DOMAIN VisibleOverlay :
             result[1].entries[Len(SeedEntries) + j] = VisibleOverlay[j]
       /\ (~kvBound \/ args[1].got.threw \/ args[1].got.value = Malformed)
          => result[1].entries = SeedEntries

\* A load whose get failed, with a store that holds overlay entries, has returned
\* the seed entries
C23_LoadSurvivedFailingGet ==
    /\ LoadEnded
    /\ kvBound
    /\ Overlay(kvAnnounced) # <<>>
    /\ args[1].got.threw
    /\ result[1].kind = "registry"
    /\ result[1].entries = SeedEntries

\* A load of a store with overlay entries has returned them after the seed entries
C23_LoadWithOverlay ==
    /\ LoadEnded
    /\ Len(result[1].entries) > Len(SeedEntries) + 1

----------------------------------------------------------------------------
(* The activity query *)

\* A registryActivity call has returned
ActivityReturned == pc[1] = "done" /\ result[1].kind = "activity"

\* The log filtered to the type asked for
MatchingEvents ==
    LET log == IF kvBound THEN loadActivityFeed(kvActivity) ELSE <<>>
    IN IF args[1].type = "" THEN log
       ELSE SelectSeq(log, LAMBDA e : e.type = args[1].type)

\* The limit asked for, 20 when none was given
AskedLimit == IF args[1].given THEN args[1].limit ELSE 20

\* The first n elements of a sequence (none for n <= 0)
FirstN(s, n) == IF n <= 0 THEN <<>> ELSE SubSeq(s, 1, IF n < Len(s) THEN n ELSE Len(s))

\* C24: activity(limit, type) returns the first `limit` events (20 when no limit is
\* given) of the newest-first log filtered to the type, with a total equal to the
\* number of events matching the filter; it never returns more events than the limit
\* given.
C24_FirstLimitOfFiltered ==
    ActivityReturned
    => /\ result[1].events = FirstN(MatchingEvents, AskedLimit)
       /\ result[1].total = Len(MatchingEvents)
       /\ args[1].given => Len(result[1].events) <= args[1].limit

\* The same for the limits that are at least 1
C24_FirstLimitOfFilteredPositive ==
    (ActivityReturned /\ AskedLimit >= 1)
    => /\ result[1].events = FirstN(MatchingEvents, AskedLimit)
       /\ result[1].total = Len(MatchingEvents)
       /\ Len(result[1].events) <= AskedLimit

\* A query with limit 0 has returned 20 events
C24_LimitZeroReturnsTwenty ==
    /\ ActivityReturned
    /\ args[1].given /\ args[1].limit = 0
    /\ Len(result[1].events) = 20

----------------------------------------------------------------------------
(* Search *)

\* A registrySearch call has returned
SearchReturned == pc[1] = "done" /\ result[1].kind = "entries"

\* The merged snapshot the search worked on
Snapshot == IF kvBound THEN Merged(kvAnnounced) ELSE SeedEntries

\* The entry has a tag equal to t when case is ignored
HasTagIgnoringCase(e, t) ==
    /\ "tags" \in DOMAIN e
    /\ \E i \in DOMAIN e.tags :
          \/ e.tags[i] = t
          \/ <<e.tags[i], t>> \in {<<"Security", "security">>, <<"security", "SECURITY">>,
                                   <<"Security", "SECURITY">>}

\* The entries a search with one argument returns
Alone(query, tag, status) ==
    {e \in Range(Snapshot) :
        \E i \in DOMAIN registrySearch(kvBound, kvAnnounced, query, tag, status) :
            registrySearch(kvBound, kvAnnounced, query, tag, status)[i] = e}

\* C25: search(tag=t) returns exactly the entries of the merged snapshot that have a tag
\* equal to t ignoring case, entries without tags excluded; query, tag and status given
\* together each narrow the result (an entry is returned iff it passes every filter
\* given); a search writes nothing to the store.
C25_SearchFiltersConjunctive ==
    SearchReturned
    => LET a == args[1]
       IN /\ (a.tag # "" /\ a.query = "" /\ a.status = "")
                => result[1].entries = SelectSeq(Snapshot, LAMBDA e : HasTagIgnoringCase(e, a.tag))
          /\ result[1].entries =
                SelectSeq(Snapshot, LAMBDA e : /\ e \in Alone(a.query, "", "")
                                               /\ e \in Alone("", a.tag, "")
                                               /\ e \in Alone("", "", a.status))
          /\ a.status # "" => \A i \in DOMAIN result[1].entries : result[1].entries[i].status = a.status
          /\ loc[1].io.puts = 0

\* A search for the tag SECURITY has returned the two entries tagged Security and
\* security, and not the one tagged insecurity
C25_TagFoundIgnoringCase ==
    /\ SearchReturned
    /\ args[1].tag = "SECURITY" /\ args[1].query = "" /\ args[1].status = ""
    /\ Len(result[1].entries) = 2
    /\ result[1].entries[1].url = TwinUrls[1]
    /\ result[1].entries[2].url = PriorUrls[1]

\* A search with a query, a tag and a status has returned the one entry passing all three
C25_ThreeFiltersOneEntry ==
    /\ SearchReturned
    /\ args[1].tag = "security" /\ args[1].query = "SECUR" /\ args[1].status = "mcp"
    /\ Len(result[1].entries) = 1
    /\ result[1].entries[1].url = PriorUrls[1]

----------------------------------------------------------------------------
(* The check minute *)

\* A getDaemonCheckMinute call has returned
MinuteReturned == pc[1] = "done" /\ result[1].kind = "minute"

\* |hash| mod 60 of the other strings given to getDaemonCheckMinute, computed by hand:
\* the hash of UrlMinInt is -2147483648, that of UrlBad is -195080797
ExpectedMinuteOf(str) ==
    CASE str = UrlMinInt -> 8
      [] str = UrlBad -> 37
      [] str = "" -> 0
      [] OTHER -> ExpectedCheckMinute[str]

\* C26: getDaemonCheckMinute(url) is determined by url alone and is an integer in
\* 0..59 for every string, also when the 32-bit hash is negative or exactly -2^31.
C26_CheckMinuteInRange ==
    MinuteReturned
    => /\ result[1].minute \in 0..(HEALTH_CHECK_INTERVAL_MINUTES - 1)
       /\ result[1].minute = ExpectedMinuteOf(args[1].url)

\* The minute of the string whose hash is -2^31 has been computed
C26_MinuteOfMinInt ==
    /\ MinuteReturned
    /\ args[1].url = UrlMinInt
    /\ Hash32(Chars(UrlMinInt)) = [hi |-> 32768, lo |-> 0]
    /\ result[1].minute = 8

\* The minute of a string with a negative hash has been computed
C26_MinuteOfNegativeHash ==
    /\ MinuteReturned
    /\ hashCodeSigned(args[1].url).neg
    /\ args[1].url # UrlMinInt

----------------------------------------------------------------------------
(* The document cache *)

\* Process p takes the first step of getDaemonSections
SectionsCalled(p) == pc[p] = "idle" /\ pc'[p] # "idle"

\* Process p's fetch ends with a document
FetchSucceeded(p) == pc[p] = "ds_fetch" /\ pc'[p] = "done" /\ loc'[p].resp.ok

\* Milliseconds since the call that made the last successful fetch read the clock
SinceLastFetch == now - daemonCache.lastFetch

\* C27: while less than 5 minutes have passed since the last successful fetch, a call
\* of getDaemonSections issues no fetch and returns the sections that fetch stored;
\* once 5 minutes or more have passed the call fetches again, and a fetch that succeeds
\* replaces the cached sections and fetch time.
C27_FiveMinuteMemoization ==
    [][\A p \in Procs :
          /\ (SectionsCalled(p) /\ daemonCache # Null)
                => IF SinceLastFetch < 300000
                   THEN /\ pc'[p] = "done"
                        /\ loc'[p].io.fetches = 0
                        /\ result'[p].sections = daemonCache.sections
                   ELSE /\ pc'[p] = "ds_fetch"
                        /\ loc'[p].io.fetches = 1
          /\ FetchSucceeded(p)
                => /\ daemonCache'.sections = parseDaemonMd(loc'[p].resp.content)
                   /\ daemonCache'.lastFetch = loc[p].now
                   /\ result'[p].sections = daemonCache'.sections
    ]_vars

\* A call exactly 5 minutes after the last successful fetch is fetching again
C27_RefetchAtFiveMinutes ==
    \E p \in Procs :
        /\ pc[p] = "ds_fetch"
        /\ daemonCache # Null
        /\ loc[p].now - daemonCache.lastFetch = 300000

\* A call a millisecond short of 5 minutes after the last successful fetch has returned
\* the cached sections without a fetch
C27_CachedJustBeforeFiveMinutes ==
    \E p \in Procs :
        /\ pc[p] = "done" /\ result[p].kind = "sections"
        /\ loc[p].io.fetches = 0
        /\ daemonCache # Null
        /\ loc[p].now - daemonCache.lastFetch = 299999

----------------------------------------------------------------------------
(* What a sweep writes *)

\* Process p's sweep ends in this step
SweepEnds(p) == pc[p] # "done" /\ pc'[p] = "done" /\ args'[p].via = "cron"

\* The overlay as it was when the sweep began
OverlayBefore == Overlay(before.store.announced)

\* The entry is due in the sweep of minute m
DueAt(e, m) == ExpectedCheckMinute[e.url] = m

\* The status a check with these probe outcomes is to return
StatusByProbes(u) ==
    IF u.mcp \/ u.verified THEN "mcp" ELSE IF u.web THEN "web" ELSE "offline"

\* The fields a health check sets
CheckedFields == {"last_checked", "status", "healthy"}

\* C28: a sweep at minute m run alone on a working store leaves the overlay as it was,
\* except that every overlay entry whose check minute is m has last_checked set to the
\* time of the check (whether or not its status changed) and status and healthy set to
\* the check's result; a sweep in which no overlay entry is due writes no overlay.
C28_SweepWritesDueEntriesOnly ==
    [][\A p \in Procs :
          /\ (SweepEnds(p) /\ before # Null)
                => LET old == OverlayBefore
                       new == Overlay(kvAnnounced')
                       checks == loc'[p].hc.updates
                   IN /\ Len(new) = Len(old)
                      /\ \A i \in DOMAIN old :
                            IF DueAt(old[i], args'[p].minute)
                            THEN /\ DOMAIN new[i] = DOMAIN old[i] \cup CheckedFields
                                 /\ \A f \in DOMAIN old[i] \ CheckedFields : new[i][f] = old[i][f]
                                 /\ new[i].last_checked = before.at
                                 /\ \E j \in DOMAIN checks :
                                       /\ checks[j].entry.url = old[i].url
                                       /\ new[i].status = StatusByProbes(checks[j])
                                       /\ new[i].healthy = (StatusByProbes(checks[j]) # "offline")
                            ELSE new[i] = old[i]
          /\ (pc[p] # "sw_save" /\ pc'[p] = "sw_save" /\ before # Null)
                => \E e \in Range(OverlayBefore) : DueAt(e, args[p].minute)
          /\ (pc[p] = "sw_save" /\ pc'[p] # "sw_save")
                => loc'[p].io.puts = loc[p].io.puts + 1
    ]_vars

\* A sweep has checked an overlay entry whose status stayed web: last_checked carries
\* the time of the sweep, no longer the time of the announce
C28_StampedThoughUnchanged ==
    \E p \in Procs :
        /\ pc[p] = "done" /\ args[p].via = "cron" /\ before # Null
        /\ before.at > 0
        /\ \E i \in DOMAIN OverlayBefore :
              /\ DueAt(OverlayBefore[i], args[p].minute)
              /\ "status" \in DOMAIN OverlayBefore[i]
              /\ OverlayBefore[i].status = "web"
              /\ OverlayBefore[i].last_checked = 0
              /\ Overlay(kvAnnounced)[i].status = "web"
              /\ Overlay(kvAnnounced)[i].last_checked = before.at

\* A sweep in which only the seed entry was due has ended with a changed status and
\* without a write of the overlay
C28_SeedOnlySweepWritesNothing ==
    \E p \in Procs :
        /\ pc[p] = "done" /\ args[p].via = "cron" /\ before # Null
        /\ args[p].minute = 59
        /\ Len(loc[p].hc.updates) = 1
        /\ loc[p].hc.updates[1].update.status = "offline"
        /\ ~loc[p].hc.updated
        /\ OverlayBefore # <<>>

----------------------------------------------------------------------------
(* The events of a sweep *)

RECURSIVE ChangeEvents(_, _, _)
\* The health_changed events due for the entries checked, newest first: entries as the
\* sweep loaded them, checks the outcomes in the same order
ChangeEvents(entries, checks, t) ==
    IF entries = <<>> THEN <<>>
    ELSE LET e == Head(entries)
             new == StatusByProbes(Head(checks))
             rest == ChangeEvents(Tail(entries), Tail(checks), t)
         IN IF "status" \in DOMAIN e /\ e.status # new
            THEN rest \o << [type |-> "health_changed", daemon_url |-> e.url,
                             daemon_owner |-> e.owner, timestamp |-> t,
                             details |-> [old_status |-> e.status, new_status |-> new]] >>
            ELSE rest

\* The entries of the registry as the sweep loaded it that are due at minute m
DueBefore(m) ==
    SelectSeq(SeedEntries \o OverlayBefore, LAMBDA e : DueAt(e, m))

\* C29: a sweep appends a health_changed event for a checked entry if and only if the
\* entry had a status when the sweep loaded the registry and the check returned another
\* one; the event carries the old and the new status; a check that leaves the status
\* as it was appends no event.
C29_EventIffStatusChanged ==
    \A p \in Procs :
        (pc[p] = "done" /\ args[p].via = "cron" /\ before # Null)
        => /\ Len(loc[p].hc.updates) = Len(DueBefore(args[p].minute))
           /\ Overlay(kvActivity) =
                 ChangeEvents(DueBefore(args[p].minute), loc[p].hc.updates, before.at)
                 \o Overlay(before.store.activity)

\* A sweep has appended the event of an overlay entry going from web to offline
C29_ChangeLogged ==
    \E p \in Procs :
        /\ pc[p] = "done" /\ args[p].via = "cron" /\ before # Null
        /\ Len(Overlay(kvActivity)) = Len(Overlay(before.store.activity)) + 1
        /\ Overlay(kvActivity)[1].type = "health_changed"
        /\ Overlay(kvActivity)[1].details = [old_status |-> "web", new_status |-> "offline"]

\* A sweep has checked an entry that had no status and one whose status stayed as it
\* was, and has appended no event
C29_NoEventWithoutOldStatus ==
    \E p \in Procs :
        /\ pc[p] = "done" /\ args[p].via = "cron" /\ before # Null
        /\ Len(loc[p].hc.updates) = 2
        /\ "status" \notin DOMAIN DueBefore(args[p].minute)[1]
        /\ DueBefore(args[p].minute)[2].status = loc[p].hc.updates[2].update.status
        /\ kvActivity = before.store.activity

----------------------------------------------------------------------------
(* The order of the checks of announce *)

\* Process p runs an announce that began with no other request under way, and has not
\* handed its result over yet
AnnounceAlone(p) ==
    /\ pc[p] \notin {"idle", "returned"}
    /\ ToolOf(args[p]) = "announce"
    /\ before # Null

\* The client's rate-limit record as stored when the announce began denies it at time t
LimitedAt(ip, t) ==
    /\ kvBound /\ ip # ""
    /\ before.store.rate[ip] # Absent
    /\ t - before.store.rate[ip].windowStart <= 3600000
    /\ before.store.rate[ip].count >= 5

\* The registry as it was when the announce began
RegistryBefore == IF kvBound THEN SeedEntries \o Overlay(before.store.announced) ELSE SeedEntries

UrlRegistered(a) == \E e \in Range(RegistryBefore) : e.url = a.url

\* The ID an announce goes by: the one given, else the derived one, written out by hand
\* for the announces made
IdOfAnnounce(a) ==
    CASE a.id # "" -> Chars(a.id)
      [] a.id = "" /\ a.url \in {UrlX, UrlXHttp} /\ a.owner = "Ada" -> Chars("com.example.x.ada")
      [] a.id = "" /\ a.url = UrlX /\ a.owner = "" -> Chars("com.example.x.daemon")
      [] a.id = "" /\ a.url = UrlY -> Chars("org.example.y.ada")
      [] a.id = "" /\ a.url = UrlSeed -> Chars("io.saltedkeys.daemon.ada")
      [] a.id = "" /\ a.url = UrlBad -> Chars("unknown.notaurl")

IdRegistered(a) == \E e \in Range(RegistryBefore) : e.id = IdOfAnnounce(a)

WellFormedUrl(a) == a.url # UrlBad

\* C30: announce checks, in this order, the rate limit, the URL against the registry,
\* the ID against the registry and the URL's format, and returns at the first check that
\* fails: a rate-limited client announcing a registered URL gets the rate-limit
\* result; the verifier is called only after all four have passed.
C30_ChecksInOrder ==
    \A p \in Procs :
        (AnnounceAlone(p) /\ (pc[p] = "done" \/ loc[p].io.fetches > 0))
        => LET a == args[p]
               limitedNow == LimitedAt(a.clientIp, now) /\ kvRate[a.clientIp] = before.store.rate[a.clientIp]
               byRate == pc[p] = "done" /\ result[p].kind = "result"
                         /\ result[p].message = "Rate limit exceeded"
               ended == pc[p] = "done" /\ result[p].kind = "result" /\ ~byRate
               urlRegistered == UrlRegistered(a)
               idRegistered == IdRegistered(a)
           IN /\ (pc[p] = "done" /\ result[p].kind = "result" /\ limitedNow) => byRate
              /\ (byRate /\ before.store.rate[a.clientIp] # Absent) => LimitedAt(a.clientIp, before.at)
              /\ (ended /\ urlRegistered)
                    => result[p].message = "Daemon already registered (URL exists)"
              /\ (ended /\ ~urlRegistered /\ idRegistered)
                    => result[p].message = "Daemon ID already registered"
              /\ (ended /\ ~urlRegistered /\ ~idRegistered /\ ~WellFormedUrl(a))
                    => result[p].message = "Invalid URL format"
              /\ loc[p].io.fetches > 0
                    => /\ \E t \in before.at..now : ~LimitedAt(a.clientIp, t)
                       /\ ~urlRegistered /\ ~idRegistered /\ WellFormedUrl(a)

\* A client at its limit has announced a URL that is registered and got the rate-limit
\* result
C30_RateLimitBeforeDuplicate ==
    \E p \in Procs :
        /\ AnnounceAlone(p)
        /\ pc[p] = "done" /\ result[p].kind = "result"
        /\ LimitedAt(args[p].clientIp, now)
        /\ UrlRegistered(args[p])
        /\ result[p].message = "Rate limit exceeded"

\* An announce of a malformed URL under an ID that is registered has been answered with
\* the registered entry
C30_DuplicateIdBeforeFormat ==
    \E p \in Procs :
        /\ AnnounceAlone(p)
        /\ pc[p] = "done" /\ result[p].kind = "result"
        /\ ~WellFormedUrl(args[p]) /\ IdRegistered(args[p])
        /\ result[p].message = "Daemon ID already registered"

----------------------------------------------------------------------------
(* The document cache when the fetch fails *)

\* Process p's fetch ends in failure (a network error or a response that is not ok)
FetchFailed(p) == pc[p] = "ds_fetch" /\ pc'[p] = "done" /\ ~loc'[p].resp.ok

\* C31: when the fetch of getDaemonSections fails and there is a cached value, the
\* cached sections are returned and neither they nor the cached fetch time change (a
\* cache that was stale stays stale, so the next call fetches again); when there is no
\* cached value the error reaches the caller.
C31_FailedFetchKeepsCache ==
    [][\A p \in Procs :
          FetchFailed(p)
          => /\ daemonCache' = daemonCache
             /\ IF daemonCache # Null
                THEN /\ result'[p].kind = "sections"
                     /\ result'[p].sections = daemonCache.sections
                     /\ (loc[p].now - daemonCache.lastFetch >= 300000)
                           => now' - daemonCache'.lastFetch >= 300000
                ELSE result'[p].kind = "thrown"
    ]_vars

\* A fetch has failed five minutes after the last successful one and the caller got the
\* sections cached then
C31_StaleServedAfterFailure ==
    \E p \in Procs :
        /\ pc[p] = "done" /\ result[p].kind = "sections"
        /\ loc[p].io.fetches = 1 /\ ~loc[p].resp.ok
        /\ daemonCache # Null
        /\ result[p].sections = daemonCache.sections
        /\ loc[p].now - daemonCache.lastFetch >= 300000

\* A fetch has failed with nothing cached and the caller got the error
C31_ErrorWithoutCache ==
    \E p \in Procs :
        /\ pc[p] = "done" /\ result[p].kind = "thrown"
        /\ daemonCache = Null

----------------------------------------------------------------------------
(* Writes after a failed read *)

\* Process p's announce, begun with no other request under way, has returned success
\* with a store bound
AnnouncedAlone(p) ==
    /\ pc[p] = "done"
    /\ ToolOf(args[p]) = "announce"
    /\ before # Null
    /\ kvBound
    /\ result[p].kind = "result" /\ result[p].success

\* C32: a successful announce removes nothing from the persisted overlay: run alone, it
\* leaves the overlay as it was before with the new entry added at the end, also when
\* the read of the overlay before the write fails or yields nothing.
C32_AnnounceKeepsOverlay ==
    \A p \in Procs :
        AnnouncedAlone(p)
        => Overlay(kvAnnounced) = Append(Overlay(before.store.announced), result[p].entry)

\* An announce whose read of the overlay failed has returned success and the two
\* entries stored before are gone
C32_OverlayLostToFailedRead ==
    \E p \in Procs :
        /\ AnnouncedAlone(p)
        /\ Len(Overlay(before.store.announced)) = 2
        /\ Overlay(kvAnnounced) = <<result[p].entry>>

\* C33: an append to the activity log discards no event but those beyond the cap of
\* 100: with one writer at a time, the log after an append is the new event followed by
\* the log before (cut to 100), also when the read of the log fails.
C33_AppendKeepsLog ==
    [][kvActivity' # kvActivity
       => LET old == Overlay(kvActivity)
              new == Overlay(kvActivity')
          IN /\ Len(new) = (IF Len(old) < 100 THEN Len(old) + 1 ELSE 100)
             /\ \A i \in 2..Len(new) : new[i] = old[i - 1]
    ]_vars

\* An append has been made after a failed read of the log: the log holds the new event
\* alone, the events it held are gone
C33_LogLostToFailedRead ==
    /\ before # Null
    /\ Len(Overlay(before.store.activity)) = 2
    /\ Len(Overlay(kvActivity)) = 1

(* The rate-limit figure an announce reports *)

\* The announce of p, served alone for a client with an address, has returned success
\* and the record of its hit is still stored
AnnounceCounted(p) ==
    /\ AnnouncedAlone(p)
    /\ args[p].clientIp # ""
    /\ kvRate[args[p].clientIp] # Absent
    /\ now - kvRate[args[p].clientIp].windowStart <= RATE_LIMIT_WINDOW_MS

\* Announces of the client that can still be accepted in the window of its record
AcceptableAnnounces(ip) ==
    IF kvRate[ip].count >= RATE_LIMIT_MAX_ANNOUNCES
    THEN 0
    ELSE RATE_LIMIT_MAX_ANNOUNCES - kvRate[ip].count

\* C34: the rate_limit.remaining a successful announce returns is the number of further
\* announces the same client can still have accepted in the current window: 5 minus the
\* hits recorded in that window, the one just made included.
C34_RemainingIsWhatIsLeft ==
    \A p \in Procs :
        AnnounceCounted(p)
            => result[p].rate_limit.remaining = AcceptableAnnounces(args[p].clientIp)

\* After the first announce of a window four more can be accepted, and three are reported
C34_FirstAnnounceReportsThree ==
    \E p \in Procs :
        /\ AnnounceCounted(p)
        /\ kvRate[args[p].clientIp].count = 1
        /\ result[p].rate_limit.remaining = 3

(* Sweeps that check an entry again *)

\* The cron trigger fires once the sweep before it has ended; what the earlier sweeps
\* found is kept for comparison
NextTrigger(p) ==
    /\ \A q \in Procs : pc[q] \in {"idle", "done"}
    /\ BeginSweep(p, SweepMinutes)

NextResweep ==
    \E p \in Procs :
        \/ NextTrigger(p)
        \/ SwLoad(p)
        \/ ProbeWebDone(p)
        \/ ProbeMcpDone(p)
        \/ ProbeVerifyStart(p)
        \/ ProbeVerifyDone(p)
        \/ SwResolve(p)
        \/ SwGet(p)
        \/ SwApply(p)
        \/ SwActivityGet(p)
        \/ SwActivityPut(p)
        \/ SwSave(p)

SpecResweep == (Init \/ InitLegacy) /\ [][NextResweep]_vars

\* The checks made by the sweep of p
ChecksOf(p) == IF pc[p] = "idle" THEN <<>> ELSE loc[p].hc.updates

\* The sweep before the sweep of p checked the url and got this status
CheckedBefore(p, url, status) ==
    /\ p > 1
    /\ \E i \in DOMAIN ChecksOf(p - 1) :
          /\ ChecksOf(p - 1)[i].entry.url = url
          /\ ChecksOf(p - 1)[i].update.status = status

\* The sweep of p appends a health_changed event
SweepAppends(p) == pc[p] = "sw_act_put" /\ kvActivity' # kvActivity

\* C35: health_changed events mark transitions only: when two consecutive sweeps check
\* the same entry and both checks return the same status, the second sweep appends no
\* health_changed event for that entry, be it a seed entry or an overlay entry.
C35_NoEventWithoutTransition ==
    [][\A p \in Procs :
          SweepAppends(p)
              => LET event == Overlay(kvActivity')[1]
                 IN ~CheckedBefore(p, event.daemon_url, event.details.new_status)]_vars

\* The same for the entries of the overlay alone
C35_NoEventWithoutTransitionInOverlay ==
    [][\A p \in Procs :
          SweepAppends(p)
              => LET event == Overlay(kvActivity')[1]
                 IN event.daemon_url # UrlSeed
                       => ~CheckedBefore(p, event.daemon_url, event.details.new_status)]_vars

\* Two sweeps in a row found the seed entry offline, and both logged mcp -> offline
C35_SeedEventRepeated ==
    /\ \A p \in Procs : pc[p] = "done"
    /\ CheckedBefore(2, UrlSeed, "offline")
    /\ Len(Overlay(kvActivity)) >= 2
    /\ \A i \in 1..2 :
          /\ Overlay(kvActivity)[i].type = "health_changed"
          /\ Overlay(kvActivity)[i].daemon_url = UrlSeed
          /\ Overlay(kvActivity)[i].details = [old_status |-> "mcp", new_status |-> "offline"]

(* Status changes and the activity log *)

\* A manual check or a sweep, run alone, has ended
HealthJobAlone(p) ==
    /\ pc[p] = "done"
    /\ before # Null
    /\ result[p].kind \in {"health", "sweep"}

\* The events appended to the log since the job began, newest first
EventsSince ==
    FirstN(Overlay(kvActivity),
           Len(Overlay(kvActivity)) - Len(Overlay(before.store.activity)))

\* The status of the i-th overlay entry is stored changed since the job began
StatusRewritten(i) ==
    /\ i \in DOMAIN Overlay(kvAnnounced)
    /\ Overlay(kvAnnounced)[i].url = Overlay(before.store.announced)[i].url
    /\ StatusOf(Overlay(kvAnnounced)[i]) # StatusOf(Overlay(before.store.announced)[i])

\* An event among those appended since the job began tells the change of the i-th entry
ChangeTold(i) ==
    \E k \in DOMAIN EventsSince :
        /\ EventsSince[k].type = "health_changed"
        /\ EventsSince[k].daemon_url = Overlay(kvAnnounced)[i].url
        /\ EventsSince[k].details =
              [old_status |-> StatusOf(Overlay(before.store.announced)[i]),
               new_status |-> StatusOf(Overlay(kvAnnounced)[i])]

\* C36: every change of an overlay entry's persisted status comes with a health_changed
\* event carrying the old and the new status, whether the scheduled sweep or a manual
\* health check wrote it.
C36_StatusChangeLogged ==
    \A p \in Procs :
        HealthJobAlone(p)
            => \A i \in DOMAIN Overlay(before.store.announced) :
                  StatusRewritten(i) => ChangeTold(i)

\* The same for the scheduled sweep alone
C36_SweepLogsStatusChange ==
    \A p \in Procs :
        (HealthJobAlone(p) /\ result[p].kind = "sweep")
            => \A i \in DOMAIN Overlay(before.store.announced) :
                  StatusRewritten(i) => ChangeTold(i)

\* A manual check has stored another status for an entry and the log is as it was
C36_ManualChangeUnlogged ==
    \E p \in Procs :
        /\ HealthJobAlone(p)
        /\ result[p].kind = "health"
        /\ kvActivity = before.store.activity
        /\ \E i \in DOMAIN Overlay(before.store.announced) : StatusRewritten(i)

(* What a successful announce leaves to be read *)

\* An announce served alone has returned success=true
AnnounceSucceeded(p) ==
    /\ Finished(p)
    /\ result[p].success
    /\ before # Null

\* registryList and registrySearch without filters, called now, return the entry
ListedNow(e) == Holds(loadRegistry(kvBound, kvAnnounced), e)

\* An announce of the url, called now, finds it registered and returns success=false
\* (registryAnnounce lines 181-184)
RefusedNow(url) == FindByUrl(loadRegistry(kvBound, kvAnnounced), url) # Null

\* C37: an announce that returns success=true has persisted its entry: served alone, a
\* list or search right afterwards contains the entry and a repeated announce of the
\* same url returns success=false, also when no key-value store is bound.
C37_SuccessMeansPersisted ==
    \A p \in Procs :
        AnnounceSucceeded(p)
            => /\ ListedNow(result[p].entry)
               /\ RefusedNow(result[p].entry.url)

\* The same where a store is bound
C37_SuccessMeansPersistedInStore ==
    \A p \in Procs :
        (AnnounceSucceeded(p) /\ kvBound)
            => /\ ListedNow(result[p].entry)
               /\ RefusedNow(result[p].entry.url)

\* Without a store an announce has returned success=true and the registry is the seed
\* list as before
C37_SuccessWithoutStore ==
    \E p \in Procs :
        /\ AnnounceSucceeded(p)
        /\ ~kvBound
        /\ loc[p].io.puts = 0
        /\ loadRegistry(kvBound, kvAnnounced) = SeedEntries
        /\ ~RefusedNow(result[p].entry.url)

(* An announce whose persist step fails *)

\* The three puts of the persist step (registryAnnounce lines 215, 219, 223)
PersistPuts == {"save", "rec_put", "act_put"}

\* An announce served alone has ended with the error of a put that failed during persist
PersistFailed(p) ==
    /\ pc[p] = "done"
    /\ ToolOf(args[p]) = "announce"
    /\ before # Null
    /\ result[p].kind = "thrown"
    /\ result[p].at \in PersistPuts

\* C38: announce is all-or-nothing with respect to the store: when it ends with an error
\* because a put failed during persist, none of its three writes is visible afterwards
\* (no new overlay entry, no rate-limit hit, no daemon_announced event), the stored state
\* being the one before the call.
C38_FailedAnnounceWritesNothing ==
    \A p \in Procs :
        PersistFailed(p)
            => /\ kvAnnounced = before.store.announced
               /\ kvRate = before.store.rate
               /\ kvActivity = before.store.activity

\* The same when the failing put is the first, the one of the overlay
C38_FailedSaveWritesNothing ==
    \A p \in Procs :
        (PersistFailed(p) /\ result[p].at = "save")
            => /\ kvAnnounced = before.store.announced
               /\ kvRate = before.store.rate
               /\ kvActivity = before.store.activity

\* The put of the activity feed failed: the announce ended with an error, and the new
\* entry and the rate-limit hit are stored
C38_EntryAndHitLeftBehind ==
    \E p \in Procs :
        /\ PersistFailed(p)
        /\ result[p].at = "act_put"
        /\ args[p].clientIp # ""
        /\ Holds(Overlay(kvAnnounced), loc[p].newEntry)
        /\ ~Holds(Overlay(before.store.announced), loc[p].newEntry)
        /\ kvRate # before.store.rate
        /\ kvActivity = before.store.activity

====
